---- MODULE Spec2Model ----
(***************************************************************************)
(* A model of the vibe-cpc interpreter for CAIE pseudocode: the Lexer, the  *)
(* recursive-descent Parser, the Environment / ExecutionContext objects    *)
(* and the tree-walking async Evaluator driven by Interpreter.execute.     *)
(*                                                                         *)
(* A source text is a sequence of lines and a line a sequence of lexemes   *)
(* (the maximal words the scanner cuts the text into).  The evaluator is a *)
(* small-step machine: every `await this.evaluate(child)` of the code is a  *)
(* frame pushed on a task's stack, every Promise.all over two or more      *)
(* children starts one task per child, and tasks interleave at awaits.     *)
(***************************************************************************)
EXTENDS Integers, Sequences, FiniteSets, TLC

(***************************************************************************)
(* Bounds of the model.                                                    *)
(***************************************************************************)
\* evaluate() calls one execution may make before the model stops following it
MaxNodes == 150
\* the largest integer literal the catalogue's lexemes spell
MaxLiteral == 12
\* executions started on the one Interpreter
MaxExecutions == 2
\* the largest start and end value of the FOR loops of the catalogue
MaxFor == 5

(***************************************************************************)
(* Generic helpers.                                                        *)
(***************************************************************************)
Last(s) == s[Len(s)]

Front(s) == SubSeq(s, 1, Len(s) - 1)

Abs(n) == IF n < 0 THEN -n ELSE n

RECURSIVE Gcd(_, _)
Gcd(a, b) == IF b = 0 THEN a ELSE Gcd(b, a % b)

\* a finite map with one binding added or replaced (Map.set)
MapSet(m, k, v) == [x \in DOMAIN m \cup {k} |-> IF x = k THEN v ELSE m[x]]

\* a finite map with one binding removed (Map.delete)
MapDelete(m, k) == [x \in DOMAIN m \ {k} |-> m[x]]

EmptyMap == [x \in {} |-> 0]

(***************************************************************************)
(* JavaScript values.  Every value is a record of the same shape; numbers   *)
(* are exact fractions n/d in lowest terms (Number.isInteger is d = 1).    *)
(***************************************************************************)
Value(k, n, d, s, b) == [kind |-> k, n |-> n, d |-> d, s |-> s, b |-> b]

Undefined == Value("undefined", 0, 1, "", FALSE)

Null == Value("null", 0, 1, "", FALSE)

Frac(n, d) ==
    LET g == Gcd(Abs(n), Abs(d))
        sgn == IF d < 0 THEN -1 ELSE 1
    IN Value("number", sgn * (n \div g), sgn * (d \div g), "", FALSE)

Num(n) == Value("number", n, 1, "", FALSE)

Str(s) == Value("string", 0, 1, s, FALSE)

Bool(b) == Value("boolean", 0, 1, "", b)

\* a reference to the id-th JavaScript object allocated, an instance of class
Ref(id, class) == Value("object", id, 1, class, FALSE)

NaN == Value("NaN", 0, 1, "", FALSE)

DigitChars == <<"0", "1", "2", "3", "4", "5", "6", "7", "8", "9">>

RECURSIVE NatToString(_)
NatToString(n) ==
    IF n < 10 THEN DigitChars[n + 1]
    ELSE NatToString(n \div 10) \o DigitChars[(n % 10) + 1]

\* String(value), as Array.prototype.join and template strings apply it
jsString(v) ==
    CASE v.kind = "number" ->
            IF v.d = 1
            THEN (IF v.n < 0 THEN "-" \o NatToString(-v.n) ELSE NatToString(v.n))
            ELSE (IF v.n < 0 THEN "-" ELSE "") \o NatToString(Abs(v.n)) \o "/"
                 \o NatToString(v.d)
      [] v.kind = "string" -> v.s
      [] v.kind = "boolean" -> IF v.b THEN "true" ELSE "false"
      [] v.kind = "undefined" -> "undefined"
      [] v.kind = "null" -> "null"
      [] v.kind = "NaN" -> "NaN"
      [] OTHER -> "[object Object]"

\* parseInt(text, 10) over the integer lexemes
parseInt(text) ==
    IF \E n \in 0..MaxLiteral : NatToString(n) = text
    THEN Num(CHOOSE n \in 0..MaxLiteral : NatToString(n) = text)
    ELSE NaN

\* the real lexemes the catalogue spells, with the fraction each denotes
RealLexemes == ("3.14" :> <<314, 100>>) @@ ("2.5" :> <<25, 10>>)

\* parseFloat(text)
parseFloat(text) ==
    IF text \in DOMAIN RealLexemes
    THEN Frac(RealLexemes[text][1], RealLexemes[text][2])
    ELSE parseInt(text)

(***************************************************************************)
(* JavaScript operators on values, as the evaluator applies them.          *)
(***************************************************************************)
typeof(v) ==
    CASE v.kind \in {"number", "NaN"} -> "number"
      [] v.kind = "string" -> "string"
      [] v.kind = "boolean" -> "boolean"
      [] v.kind = "undefined" -> "undefined"
      [] OTHER -> "object"

\* Number(value)
Number(v) ==
    CASE v.kind = "number" -> v
      [] v.kind = "string" -> IF v.s = "" THEN Num(0) ELSE parseFloat(v.s)
      [] v.kind = "boolean" -> IF v.b THEN Num(1) ELSE Num(0)
      [] v.kind = "null" -> Num(0)
      [] OTHER -> NaN

IsNumber(v) == v.kind = "number"

jsAdd(a, b) ==
    IF IsNumber(a) /\ IsNumber(b) THEN Frac(a.n * b.d + b.n * a.d, a.d * b.d) ELSE NaN

\* left + right: concatenation as soon as one side is a string
\* a + that adds numerically whatever its operands are
jsPlusNumeric(left, right) == jsAdd(Number(left), Number(right))

jsPlus(left, right) ==
    IF left.kind = "string" \/ right.kind = "string"
    THEN Str(jsString(left) \o jsString(right))
    ELSE jsAdd(Number(left), Number(right))

jsNegate(a) == IF IsNumber(a) THEN Frac(-a.n, a.d) ELSE NaN

jsSubtract(a, b) == jsAdd(a, jsNegate(b))

jsMultiply(a, b) == IF IsNumber(a) /\ IsNumber(b) THEN Frac(a.n * b.n, a.d * b.d) ELSE NaN

\* a / b for b # 0
jsDivide(a, b) == IF IsNumber(a) /\ IsNumber(b) THEN Frac(a.n * b.d, a.d * b.n) ELSE NaN

\* Math.floor(x)
jsFloor(a) == IF IsNumber(a) THEN Num(a.n \div a.d) ELSE NaN

\* a % b for b # 0: the remainder takes the sign of the dividend
jsRemainder(a, b) ==
    IF IsNumber(a) /\ IsNumber(b)
    THEN LET q == jsDivide(a, b)
             trunc == IF q.n >= 0 THEN q.n \div q.d ELSE -((-q.n) \div q.d)
         IN jsSubtract(a, jsMultiply(Num(trunc), b))
    ELSE NaN

\* a < b and a <= b on numbers (false as soon as one side is NaN)
jsLess(a, b) == IsNumber(a) /\ IsNumber(b) /\ a.n * b.d < b.n * a.d

jsLessEq(a, b) == IsNumber(a) /\ IsNumber(b) /\ a.n * b.d <= b.n * a.d

\* a === b
StrictEqual(a, b) == a.kind # "NaN" /\ a = b

\* isTruthy(value)
isTruthy(v) ==
    CASE v.kind \in {"null", "undefined"} -> FALSE
      [] v.kind = "boolean" -> v.b
      [] v.kind = "number" -> v.n # 0
      [] v.kind = "NaN" -> TRUE
      [] v.kind = "string" -> v.s # ""
      [] OTHER -> TRUE

\* isEqual(a, b): ===, or two numbers closer than 1e-10, or two objects with
\* equal own properties (the objects of the model own none)
isEqual(a, b) ==
    \/ StrictEqual(a, b)
    \/ /\ IsNumber(a) /\ IsNumber(b)
       \* |a - b| < 1e-10, with 1e10 = 100000 * 100000 kept within 32 bits
       /\ LET diff == jsSubtract(a, b)
          IN Abs(diff.n) * 100000 <= (diff.d - 1) \div 100000
    \/ a.kind = "object" /\ b.kind = "object"

\* convertInput(input, targetType)
convertInput(input, targetType) ==
    CASE targetType.name = "INTEGER" -> parseInt(input)
      [] targetType.name = "REAL" -> parseFloat(input)
      [] targetType.name = "CHAR" -> Str(input)  \* charAt(0): inputs are one character long
      [] targetType.name = "STRING" -> Str(input)
      [] targetType.name = "BOOLEAN" -> Bool(input \in {"true", "TRUE", "True"})
      [] OTHER -> Undefined

(***************************************************************************)
(* Errors: the class of the thrown object and its message.                 *)
(***************************************************************************)
NoError == [class |-> "", message |-> ""]

Err(class, message) == [class |-> class, message |-> message]

\* error instanceof PseudocodeError
IsPseudocodeError(e) ==
    e.class \in {"PseudocodeError", "SyntaxError", "RuntimeError", "TypeError",
                 "FileIOError", "DivisionByZeroError", "IndexError"}

(***************************************************************************)
(* Lexer.                                                                  *)
(***************************************************************************)
KEYWORD_TOKENS ==
    {"IF", "THEN", "ELSE", "ENDIF", "CASE", "ENDCASE", "OTHERWISE", "FOR", "TO",
     "NEXT", "STEP", "WHILE", "ENDWHILE", "REPEAT", "UNTIL", "PROCEDURE",
     "ENDPROCEDURE", "FUNCTION", "ENDFUNCTION", "DECLARE", "CONSTANT", "ARRAY",
     "OF", "TYPE", "ENDTYPE", "CLASS", "ENDCLASS", "INHERITS", "PUBLIC",
     "PRIVATE", "NEW", "BYVAL", "BYREF", "RETURNS", "CALL", "INPUT", "OUTPUT",
     "OPENFILE", "CLOSEFILE", "READFILE", "WRITEFILE", "SEEK", "GETRECORD",
     "PUTRECORD", "EOF", "FROM", "INTEGER", "REAL", "CHAR", "STRING", "BOOLEAN",
     "DATE", "TRUE", "FALSE", "AND", "OR", "NOT"}

\* the lexemes scanToken's switch turns into operator and delimiter tokens
SymbolTokens ==
    ("(" :> "LEFT_PAREN") @@ (")" :> "RIGHT_PAREN") @@ ("[" :> "LEFT_BRACKET")
    @@ ("]" :> "RIGHT_BRACKET") @@ ("," :> "COMMA") @@ (":" :> "COLON")
    @@ ("+" :> "PLUS") @@ ("-" :> "MINUS") @@ ("->" :> "ASSIGNMENT")
    @@ ("*" :> "MULTIPLY") @@ ("/" :> "DIVIDE") @@ ("=" :> "EQUAL")
    @@ ("<=" :> "LESS_EQUAL") @@ ("<>" :> "NOT_EQUAL") @@ ("<-" :> "ASSIGNMENT")
    @@ ("<" :> "LESS_THAN") @@ (">=" :> "GREATER_EQUAL") @@ (">" :> "GREATER_THAN")
    @@ ("\n" :> "NEWLINE")

\* the string-literal lexemes of the catalogue, with the text between the quotes
StringLexemes ==
    ("\"a\"" :> "a") @@ ("\"b\"" :> "b") @@ ("\"late\"" :> "late")
    @@ ("\"f\"" :> "f") @@ ("\"g\"" :> "g") @@ ("\"\"" :> "") @@ ("\"7\"" :> "7")
    @@ ("\"one\"" :> "one") @@ ("\"range\"" :> "range") @@ ("\"other\"" :> "other")
    @@ ("\"next\"" :> "next") @@ ("\"Hello\"" :> "Hello") @@ ("\" \"" :> " ")
    @@ ("\"World\"" :> "World")

\* lexemes whose first character is no case of scanToken's switch, no digit
\* and no letter
UnexpectedCharacters == {"@", "&", ".", "{", "}", ";"}

\* text.toUpperCase() over the spellings of the catalogue
LowerCaseWords == ("output" :> "OUTPUT") @@ ("integer" :> "INTEGER")

toUpperCase(text) ==
    IF text \in DOMAIN LowerCaseWords THEN LowerCaseWords[text] ELSE text

Token(type, value) == [type |-> type, value |-> value]

\* addToken(type, value): the token's value is `value || text`
addToken(type, value, text) == Token(type, IF value = "" THEN text ELSE value)

isDigit(text) == parseFloat(text).kind = "number"

\* number(): REAL_LITERAL when the lexeme holds a '.', INTEGER_LITERAL otherwise
number(text) ==
    IF text \in DOMAIN RealLexemes
    THEN addToken("REAL_LITERAL", text, text)
    ELSE addToken("INTEGER_LITERAL", text, text)

\* a lexer whose keyword EOF has the type of the token that ends the sequence
identifierEndingAtEOF(text) ==
    IF toUpperCase(text) = "EOF" THEN Token("EOF_TOKEN", text)
    ELSE IF toUpperCase(text) \in KEYWORD_TOKENS
    THEN addToken(toUpperCase(text), "", text)
    ELSE addToken("IDENTIFIER", text, text)

\* identifier(): a keyword of KEYWORD_TOKENS (upper-cased lookup) or IDENTIFIER
identifier(text) ==
    IF toUpperCase(text) \in KEYWORD_TOKENS
    THEN addToken(toUpperCase(text), "", text)
    ELSE addToken("IDENTIFIER", text, text)

\* scanToken(): the token one lexeme adds, or the SyntaxError it throws
scanToken(text) ==
    CASE text \in DOMAIN SymbolTokens ->
            [error |-> NoError, token |-> addToken(SymbolTokens[text], "", text)]
      [] text \in DOMAIN StringLexemes ->
            [error |-> NoError,
             token |-> addToken("STRING_LITERAL", StringLexemes[text], text)]
      [] isDigit(text) -> [error |-> NoError, token |-> number(text)]
      [] text \in UnexpectedCharacters ->
            [error |-> Err("SyntaxError", "Unexpected character: " \o text),
             token |-> Token("", "")]
      [] OTHER -> [error |-> NoError, token |-> identifier(text)]

EOF_TOKEN == Token("EOF_TOKEN", "")

\* what scanToken takes from the source at each call.  Its switch has two
\* `case '/'`: the first (addToken(DIVIDE), no look-ahead) is the one a '/'
\* selects, and the second, which would match a following '/' and skip to the
\* end of the line, is never selected.  So the two characters of a `//` are
\* scanned by two calls, and the text after them is scanned as any other text.
RECURSIVE scanned(_)
scanned(lexemes) ==
    IF lexemes = <<>> THEN <<>>
    ELSE IF Head(lexemes) = "//" THEN <<"/", "/">> \o scanned(Tail(lexemes))
    ELSE <<Head(lexemes)>> \o scanned(Tail(lexemes))

\* tokenize(): scan lexeme after lexeme, stop at the first error, end with EOF
tokenize(lexemes) ==
    LET source == scanned(lexemes)
        errors == {i \in DOMAIN source : scanToken(source[i]).error # NoError}
        first == CHOOSE i \in errors : \A j \in errors : i <= j
    IN IF errors = {}
       THEN [error |-> NoError,
             tokens |-> [i \in DOMAIN source |-> scanToken(source[i]).token]
                        \o <<EOF_TOKEN>>]
       ELSE [error |-> scanToken(source[first]).error, tokens |-> <<>>]

(***************************************************************************)
(* Parser.  The parser's state is its position `current` (1-based here) and *)
(* the error thrown so far: once an error is thrown every later step of the *)
(* parse is skipped, as the exception unwinds the recursive descent.       *)
(***************************************************************************)
PState(current, error) == [current |-> current, error |-> error]

NoNode == [type |-> "null"]

PResult(s, node) == [s |-> s, node |-> node]

ok(s) == s.error = NoError

peek(t, s) == t[s.current]

previous(t, s) == t[s.current - 1]

isAtEnd(t, s) == peek(t, s).type = "EOF_TOKEN"

check(t, s, type) == ~isAtEnd(t, s) /\ peek(t, s).type = type

advance(t, s) == IF ~isAtEnd(t, s) THEN PState(s.current + 1, s.error) ELSE s

\* throw this.error(token, message): a SyntaxError
throw(s, class, message) == IF ok(s) THEN PState(s.current, Err(class, message)) ELSE s

\* match(type): the state after it (advanced exactly when the token matched)
match(t, s, type) == IF ok(s) /\ check(t, s, type) THEN advance(t, s) ELSE s

matched(t, s, type) == ok(s) /\ check(t, s, type)

consume(t, s, type, message) ==
    IF ~ok(s) THEN s
    ELSE IF check(t, s, type) THEN advance(t, s)
    ELSE throw(s, "SyntaxError", message)

consumeLike(t, s, types, message) ==
    IF ~ok(s) THEN s
    ELSE IF peek(t, s).type \in types THEN advance(t, s)
    ELSE throw(s, "SyntaxError", message)

consumeNewline(t, s) == match(t, s, "NEWLINE")

\* data types: a PseudocodeType name, or the parser's ArrayTypeInfo
PrimitiveType(name) ==
    [kind |-> "primitive", name |-> name, elementType |-> "", dimensions |-> <<>>,
     fields |-> <<>>]

ArrayTypeInfo(elementType, dimensions) ==
    [kind |-> "array", name |-> "", elementType |-> elementType,
     dimensions |-> dimensions, fields |-> <<>>]

\* the evaluator's UserDefinedTypeInfo of a TYPE declaration
UserDefinedTypeInfo(name, fields) ==
    [kind |-> "userDefined", name |-> name, elementType |-> "", dimensions |-> <<>>,
     fields |-> fields]

parseDataType(t, s) ==
    LET s1 == consumeLike(t, s, {"STRING", "CHAR", "INTEGER", "REAL", "BOOLEAN", "DATE"},
                          "Expected data type, found \"" \o peek(t, s).value \o "\"")
    IN PResult(s1, IF ok(s1) THEN PrimitiveType(toUpperCase(previous(t, s1).value))
                   ELSE PrimitiveType(""))

Literal(value, dataType) == [type |-> "Literal", value |-> value, dataType |-> dataType]

Identifier(name) == [type |-> "Identifier", name |-> name]

BinaryExpression(operator, left, right) ==
    [type |-> "BinaryExpression", operator |-> operator, left |-> left, right |-> right]

RECURSIVE expression(_, _), binaryLoops(_, _, _), unary(_, _), primary(_, _),
          expressionList(_, _, _)

\* do { list.push(expression()) } while (match(COMMA))
expressionList(t, s, list) ==
    LET pushed(e) ==
            IF e.s.error # NoError THEN PResult(e.s, list)
            ELSE IF check(t, e.s, "COMMA")
            THEN expressionList(t, advance(t, e.s), Append(list, e.node))
            ELSE PResult(e.s, Append(list, e.node))
    IN pushed(expression(t, s))

primary(t, s) ==
    IF ~ok(s) THEN PResult(s, NoNode)
    ELSE LET type == peek(t, s).type
             s1 == advance(t, s)
             value == peek(t, s).value
             call(args) ==
                IF args.s.error # NoError THEN PResult(args.s, NoNode)
                ELSE PResult(consume(t, args.s, "RIGHT_PAREN", "Expected ')' after arguments"),
                             [type |-> "CallExpression", name |-> value,
                              arguments |-> args.node])
             access(indices) ==
                IF indices.s.error # NoError THEN PResult(indices.s, NoNode)
                ELSE PResult(consume(t, indices.s, "RIGHT_BRACKET",
                                     "Expected ']' after array indices"),
                             [type |-> "ArrayAccess", array |-> Identifier(value),
                              indices |-> indices.node])
             grouping(e) ==
                IF e.s.error # NoError THEN PResult(e.s, NoNode)
                ELSE PResult(consume(t, e.s, "RIGHT_PAREN", "Expected ')' after expression"),
                             e.node)
         IN CASE isAtEnd(t, s) -> PResult(throw(s, "SyntaxError", "Expected expression"), NoNode)
              [] type = "TRUE" -> PResult(s1, Literal(Bool(TRUE), "BOOLEAN"))
              [] type = "FALSE" -> PResult(s1, Literal(Bool(FALSE), "BOOLEAN"))
              [] type = "INTEGER_LITERAL" -> PResult(s1, Literal(parseInt(value), "INTEGER"))
              [] type = "REAL_LITERAL" -> PResult(s1, Literal(parseFloat(value), "REAL"))
              [] type = "STRING_LITERAL" -> PResult(s1, Literal(Str(value), "STRING"))
              [] type = "CHAR_LITERAL" -> PResult(s1, Literal(Str(value), "CHAR"))
              [] type = "IDENTIFIER" ->
                    IF matched(t, s1, "LEFT_PAREN")
                    THEN call(IF check(t, advance(t, s1), "RIGHT_PAREN")
                              THEN PResult(advance(t, s1), <<>>)
                              ELSE expressionList(t, advance(t, s1), <<>>))
                    ELSE IF matched(t, s1, "LEFT_BRACKET")
                    THEN access(expressionList(t, advance(t, s1), <<>>))
                    ELSE PResult(s1, Identifier(value))
              [] type = "LEFT_PAREN" -> grouping(expression(t, s1))
              [] OTHER -> PResult(throw(s, "SyntaxError", "Expected expression"), NoNode)

\* { type: 'BinaryExpression', operator: the token before `right`, left: expr, right }
binary(t, expr, right) ==
    IF right.s.error # NoError THEN PResult(right.s, NoNode)
    ELSE PResult(right.s, BinaryExpression(peek(t, expr.s).value, expr.node, right.node))

unary(t, s) ==
    LET node(right) ==
            IF right.s.error # NoError THEN PResult(right.s, NoNode)
            ELSE PResult(right.s, [type |-> "UnaryExpression", operator |-> peek(t, s).value,
                                   operand |-> right.node])
    IN IF matched(t, s, "MINUS") \/ matched(t, s, "NOT")
       THEN node(unary(t, advance(t, s)))
       ELSE primary(t, s)

\* logicalOr(), logicalAnd(), equality(), comparison(), term() and factor() are six
\* loops of one shape, `expr = operand(); while (match(operators)) expr = binary(expr,
\* operand())`, each taking its operands from the next one and factor() from unary():
\* the operator tokens of each, logicalOr() first
BinaryLevels ==
    << {"OR"}, {"AND"}, {"EQUAL", "NOT_EQUAL"},
       {"GREATER_THAN", "GREATER_EQUAL", "LESS_THAN", "LESS_EQUAL"},
       {"PLUS", "MINUS"}, {"MULTIPLY", "DIVIDE", "DIV", "MOD"} >>

\* a parser with one loop for every binary operator: no precedence order
levelOfFlat(t, s) ==
    IF ok(s) /\ \E level \in DOMAIN BinaryLevels : peek(t, s).type \in BinaryLevels[level]
    THEN 1
    ELSE 0

\* the loop that matches the token at `s`: its place in BinaryLevels, 0 for none
levelOf(t, s) ==
    IF ok(s) /\ \E level \in DOMAIN BinaryLevels : peek(t, s).type \in BinaryLevels[level]
    THEN CHOOSE level \in DOMAIN BinaryLevels : peek(t, s).type \in BinaryLevels[level]
    ELSE 0

\* the loops from `level` inwards, run on the unary expression `expr` and the
\* parser's position after it: a loop that matches takes its right operand from
\* the loops inside it, and the loops outside `level` are left to the caller
binaryLoops(t, expr, level) ==
    IF expr.s.error # NoError \/ levelOf(t, expr.s) < level THEN expr
    ELSE binaryLoops(t, binary(t, expr,
                               binaryLoops(t, unary(t, advance(t, expr.s)),
                                           levelOf(t, expr.s) + 1)),
                     level)

expression(t, s) == binaryLoops(t, unary(t, s), 1)

RECURSIVE statement(_, _), block(_, _, _, _), caseClauses(_, _, _)

\* while (!check(stop) && !isAtEnd()) { stmt = statement(); if (stmt) push }
block(t, s, stops, list) ==
    LET push(r) ==
            IF r.s.error # NoError THEN PResult(r.s, list)
            ELSE block(t, r.s, stops,
                       IF r.node.type = "null" THEN list ELSE Append(list, r.node))
    IN IF ~ok(s) \/ isAtEnd(t, s) \/ peek(t, s).type \in stops THEN PResult(s, list)
       ELSE push(statement(t, s))

RECURSIVE dimensionList(_, _, _)
dimensionList(t, s, list) ==
    LET push(e) ==
            IF ~ok(e.s) THEN PResult(e.s, list)
            ELSE IF e.node.type # "Literal" \/ e.node.value.kind # "number"
            THEN PResult(throw(e.s, "SyntaxError", "Array dimensions must be integer literals"),
                         list)
            ELSE IF matched(t, e.s, "COMMA")
            THEN dimensionList(t, advance(t, e.s), Append(list, e.node.value))
            ELSE PResult(e.s, Append(list, e.node.value))
    IN IF ~ok(s) \/ check(t, s, "RIGHT_BRACKET") THEN PResult(s, list)
       ELSE push(expression(t, s))

\* the array branch of declareStatement, from the token after ARRAY
arrayType(t, s) ==
    LET array(elementType, dimensions) ==
            PResult(consume(t, dimensions.s, "RIGHT_BRACKET",
                            "Expected ']' after array dimensions"),
                    ArrayTypeInfo(elementType.node.name, dimensions.node))
        of(elementType) ==
            array(elementType,
                  dimensionList(t, consume(t, elementType.s, "LEFT_BRACKET",
                                           "Expected '[' for array dimensions"), <<>>))
    IN of(parseDataType(t, consume(t, s, "OF", "Expected 'OF' after ARRAY")))

declareStatement(t, s) ==
    LET node(name, dataType) ==
            PResult(IF matched(t, dataType.s, "ASSIGNMENT")
                    THEN throw(advance(t, dataType.s), "Error",
                               "Assignment not allowed in DECLARE statement")
                    ELSE consumeNewline(t, dataType.s),
                    [type |-> "DeclareStatement", name |-> name, dataType |-> dataType.node,
                     isConstant |-> FALSE, initialValue |-> Undefined])
        typed(name, s2) ==
            node(name, IF matched(t, s2, "ARRAY") THEN arrayType(t, advance(t, s2))
                       ELSE parseDataType(t, s2))
        named(s1) ==
            typed(previous(t, s1).value,
                  consume(t, s1, "COLON", "Expected ':' after variable name, before data type"))
    IN named(consume(t, s, "IDENTIFIER", "Expected variable name"))

ifStatement(t, s) ==
    LET node(condition, thenBranch, elseBranch) ==
            IF elseBranch.s.error # NoError THEN PResult(elseBranch.s, NoNode)
            ELSE PResult(consumeNewline(t, consume(t, elseBranch.s, "ENDIF",
                                                   "Expected 'ENDIF' to close IF statement")),
                         [type |-> "If", condition |-> condition.node,
                          thenBranch |-> thenBranch.node,
                          hasElse |-> check(t, thenBranch.s, "ELSE"),
                          elseBranch |-> elseBranch.node])
        else(condition, thenBranch) ==
            IF thenBranch.s.error # NoError THEN PResult(thenBranch.s, NoNode)
            ELSE node(condition, thenBranch,
                      IF check(t, thenBranch.s, "ELSE")
                      THEN block(t, consumeNewline(t, advance(t, thenBranch.s)),
                                 {"ENDIF"}, <<>>)
                      ELSE PResult(thenBranch.s, <<>>))
        then(condition) ==
            IF condition.s.error # NoError THEN PResult(condition.s, NoNode)
            ELSE else(condition,
                      block(t, consumeNewline(t, consume(t, condition.s, "THEN",
                                 "Expected 'THEN' after IF condition, found "
                                     \o peek(t, condition.s).value)),
                            {"ELSE", "ENDIF"}, <<>>))
    IN then(expression(t, s))

\* the loop over the clauses of a CASE: [cases, hasOtherwise, otherwise]
caseClauses(t, s, acc) ==
    LET otherwise(body) ==
            PResult(body.s, [acc EXCEPT !.hasOtherwise = TRUE, !.otherwise = body.node])
        clause(values, body) ==
            caseClauses(t, body.s,
                [acc EXCEPT !.cases = Append(@, [values |-> values.node, body |-> body.node])])
        of(values) ==
            clause(values,
                   block(t, consumeNewline(t, consume(t, values.s, "COLON",
                                                      "Expected ':' after CASE values")),
                         {"CASE", "ENDCASE", "OTHERWISE"}, <<>>))
    IN IF ~ok(s) \/ isAtEnd(t, s) \/ check(t, s, "ENDCASE") THEN PResult(s, acc)
       ELSE IF check(t, s, "OTHERWISE")
       THEN otherwise(block(t, consumeNewline(t, consume(t, advance(t, s), "COLON",
                                                         "Expected ':' after OTHERWISE")),
                            {"ENDCASE"}, <<>>))
       ELSE IF check(t, s, "COLON")
       THEN PResult(throw(s, "SyntaxError", "Expected at least one CASE value before ':'"), acc)
       ELSE of(expressionList(t, s, <<>>))

caseStatement(t, s) ==
    LET node(e, clauses) ==
            PResult(consumeNewline(t, consume(t, clauses.s, "ENDCASE",
                                              "Expected 'ENDCASE' to close CASE statement")),
                    [type |-> "Case", expression |-> e.node, cases |-> clauses.node.cases,
                     hasOtherwise |-> clauses.node.hasOtherwise,
                     otherwise |-> clauses.node.otherwise])
        of(e) ==
            node(e, caseClauses(t, consumeNewline(t, consume(t, e.s, "OF",
                                                    "Expected 'OF' after CASE expression")),
                                [cases |-> <<>>, hasOtherwise |-> FALSE, otherwise |-> <<>>]))
    IN of(expression(t, s))

forStatement(t, s) ==
    LET node(variable, start, end, step, body) ==
            PResult(consumeNewline(t, consume(t, body.s, "NEXT",
                                              "Expected 'NEXT' to close FOR loop")),
                    [type |-> "For", variable |-> variable, start |-> start.node,
                     end |-> end.node, hasStep |-> matched(t, end.s, "STEP"),
                     step |-> step.node, body |-> body.node])
        stepped(variable, start, end, step) ==
            node(variable, start, end, step, block(t, consumeNewline(t, step.s), {"NEXT"}, <<>>))
        to(variable, start, end) ==
            stepped(variable, start, end,
                    IF matched(t, end.s, "STEP") THEN expression(t, advance(t, end.s))
                    ELSE PResult(end.s, NoNode))
        from(variable, start) ==
            to(variable, start,
               expression(t, consume(t, start.s, "TO", "Expected 'TO' in FOR loop")))
        named(s1) ==
            from(previous(t, s1).value,
                 expression(t, consume(t, s1, "ASSIGNMENT", "Expected '<-' after FOR variable")))
    IN named(consume(t, s, "IDENTIFIER", "Expected variable name in FOR loop"))

whileStatement(t, s) ==
    LET node(condition, body) ==
            PResult(consumeNewline(t, consume(t, body.s, "ENDWHILE",
                                              "Expected 'ENDWHILE' to close WHILE loop")),
                    [type |-> "While", condition |-> condition.node, body |-> body.node])
        do(condition) ==
            node(condition, block(t, consumeNewline(t, condition.s), {"ENDWHILE"}, <<>>))
    IN do(expression(t, s))

repeatStatement(t, s) ==
    LET node(body, condition) ==
            PResult(consumeNewline(t, condition.s),
                    [type |-> "Repeat", body |-> body.node, condition |-> condition.node])
        until(body) ==
            node(body, expression(t, consume(t, body.s, "UNTIL",
                                             "Expected 'UNTIL' to close REPEAT loop")))
    IN until(block(t, consumeNewline(t, s), {"UNTIL"}, <<>>))

RECURSIVE parameterList(_, _, _)
\* do { [BYVAL | BYREF] name : type } while (match(COMMA))
parameterList(t, s, list) ==
    LET mode == IF matched(t, s, "BYREF") THEN "BY_REFERENCE" ELSE "BY_VALUE"
        push(dataType, l) ==
            IF matched(t, dataType.s, "COMMA")
            THEN parameterList(t, advance(t, dataType.s), l)
            ELSE PResult(dataType.s, l)
        typed(name, dataType) ==
            push(dataType, Append(list, [type |-> "Parameter", name |-> name,
                                         dataType |-> dataType.node, mode |-> mode]))
        named(s2) ==
            typed(previous(t, s2).value,
                  parseDataType(t, consume(t, s2, "COLON", "Expected ':' after parameter name")))
    IN named(consume(t, match(t, match(t, s, "BYVAL"), "BYREF"), "IDENTIFIER",
                     "Expected parameter name"))

parseParameters(t, s) ==
    IF ok(s) /\ ~check(t, s, "RIGHT_PAREN") THEN parameterList(t, s, <<>>)
    ELSE PResult(s, <<>>)

procedureDeclaration(t, s) ==
    LET node(name, parameters, body) ==
            IF body.s.error # NoError THEN PResult(body.s, NoNode)
            ELSE PResult(consumeNewline(t, consume(t, body.s, "ENDPROCEDURE",
                             "Expected 'ENDPROCEDURE' to close procedure declaration")),
                         [type |-> "ProcedureDeclaration", name |-> name,
                          parameters |-> parameters.node, body |-> body.node])
        declared(name, parameters) ==
            node(name, parameters,
                 block(t, consumeNewline(t, consume(t, parameters.s, "RIGHT_PAREN",
                                                    "Expected ')' after parameters")),
                       {"ENDPROCEDURE"}, <<>>))
        named(s1) ==
            declared(previous(t, s1).value,
                     parseParameters(t, consume(t, s1, "LEFT_PAREN",
                                                "Expected '(' after procedure name")))
    IN named(consume(t, s, "IDENTIFIER", "Expected procedure name"))

functionDeclaration(t, s) ==
    LET node(name, parameters, returnType, body) ==
            IF body.s.error # NoError THEN PResult(body.s, NoNode)
            ELSE PResult(consumeNewline(t, consume(t, body.s, "ENDFUNCTION",
                             "Expected 'ENDFUNCTION' to close function declaration")),
                         [type |-> "FunctionDeclaration", name |-> name,
                          parameters |-> parameters.node, returnType |-> returnType.node,
                          body |-> body.node])
        returns(name, parameters, returnType) ==
            node(name, parameters, returnType,
                 block(t, consumeNewline(t, returnType.s), {"ENDFUNCTION"}, <<>>))
        declared(name, parameters) ==
            returns(name, parameters,
                    parseDataType(t, consume(t, consume(t, parameters.s, "RIGHT_PAREN",
                                                        "Expected ')' after parameters"),
                                             "RETURNS",
                                             "Expected 'RETURNS' in function declaration")))
        named(s1) ==
            declared(previous(t, s1).value,
                     parseParameters(t, consume(t, s1, "LEFT_PAREN",
                                                "Expected '(' after function name")))
    IN named(consume(t, s, "IDENTIFIER", "Expected function name"))

callStatement(t, s) ==
    LET node(name, args) ==
            PResult(consumeNewline(t, consume(t, args.s, "RIGHT_PAREN",
                                              "Expected ')' after arguments")),
                    [type |-> "CallStatement", name |-> name, arguments |-> args.node])
        arguments(name, s2) ==
            node(name, IF ok(s2) /\ ~check(t, s2, "RIGHT_PAREN")
                       THEN expressionList(t, s2, <<>>)
                       ELSE PResult(s2, <<>>))
        named(s1) ==
            arguments(previous(t, s1).value,
                      consume(t, s1, "LEFT_PAREN", "Expected '(' after procedure name"))
    IN named(consume(t, s, "IDENTIFIER", "Expected procedure name"))

inputStatement(t, s) ==
    LET node(prompt, target) ==
            PResult(IF ok(target.s) /\ target.node.type \notin {"Identifier", "ArrayAccess"}
                    THEN throw(target.s, "SyntaxError",
                               "Expected variable name for INPUT statement")
                    ELSE consumeNewline(t, target.s),
                    [type |-> "Input", hasPrompt |-> ~check(t, s, "IDENTIFIER"),
                     prompt |-> prompt.node, target |-> target.node])
        prompted(prompt) == node(prompt, primary(t, prompt.s))
    IN prompted(IF ~check(t, s, "IDENTIFIER") THEN expression(t, s) ELSE PResult(s, NoNode))

outputStatement(t, s) ==
    LET node(expressions) ==
            IF expressions.s.error # NoError THEN PResult(expressions.s, NoNode)
            ELSE PResult(consumeNewline(t, expressions.s),
                         [type |-> "Output", expressions |-> expressions.node])
    IN node(IF ~check(t, s, "NEWLINE") THEN expressionList(t, s, <<>>) ELSE PResult(s, <<>>))

returnStatement(t, s) ==
    LET node(value) ==
            IF value.s.error # NoError THEN PResult(value.s, NoNode)
            ELSE PResult(consumeNewline(t, value.s),
                         [type |-> "Return", hasValue |-> ~check(t, s, "NEWLINE"),
                          value |-> value.node])
    IN node(IF ~check(t, s, "NEWLINE") THEN expression(t, s) ELSE PResult(s, NoNode))

FileModes == {"READ", "WRITE", "APPEND", "RANDOM"}

openFileStatement(t, s) ==
    LET node(filename, fileHandle) ==
            PResult(consumeNewline(t, fileHandle.s),
                    [type |-> "OpenFile", filename |-> filename.node,
                     mode |-> IF matched(t, filename.s, "IDENTIFIER")
                              THEN toUpperCase(peek(t, filename.s).value)
                              ELSE "READ",
                     fileHandle |-> fileHandle.node])
        mode(filename) ==
            IF ~matched(t, filename.s, "IDENTIFIER") THEN filename.s
            ELSE IF toUpperCase(peek(t, filename.s).value) \in FileModes
            THEN advance(t, filename.s)
            ELSE throw(advance(t, filename.s), "SyntaxError",
                       "Invalid file mode. Expected READ, WRITE, APPEND, or RANDOM")
        named(filename) ==
            node(filename,
                 primary(t, consume(t, mode(filename), "FOR", "Expected 'FOR' after filename")))
    IN named(expression(t, s))

closeFileStatement(t, s) ==
    LET node(fileHandle) ==
            PResult(consumeNewline(t, fileHandle.s),
                    [type |-> "CloseFile", fileHandle |-> fileHandle.node])
    IN node(primary(t, s))

RECURSIVE fieldList(_, _, _)
fieldList(t, s, fields) ==
    LET typed(name, dataType) ==
            fieldList(t, consumeNewline(t, dataType.s),
                      Append(fields, [type |-> "FieldDeclaration", name |-> name,
                                      dataType |-> dataType.node]))
        named(s1) ==
            typed(previous(t, s1).value,
                  parseDataType(t, consume(t, s1, "COLON", "Expected ':' after field name")))
    IN IF ~ok(s) \/ isAtEnd(t, s) \/ check(t, s, "ENDTYPE") THEN PResult(s, fields)
       ELSE named(consume(t, s, "IDENTIFIER", "Expected field name"))

typeDeclaration(t, s) ==
    LET node(name, fields) ==
            PResult(consumeNewline(t, consume(t, fields.s, "ENDTYPE",
                                              "Expected 'ENDTYPE' to close type declaration")),
                    [type |-> "TypeDeclaration", name |-> name, fields |-> fields.node])
        named(s1) == node(previous(t, s1).value, fieldList(t, consumeNewline(t, s1), <<>>))
    IN named(consume(t, s, "IDENTIFIER", "Expected type name"))

assignmentOrExpressionStatement(t, s) ==
    LET assignment(expr, value) ==
            PResult(consumeNewline(t, value.s),
                    [type |-> "Assignment", target |-> expr.node, value |-> value.node])
        node(expr) ==
            IF matched(t, expr.s, "ASSIGNMENT")
            THEN assignment(expr, expression(t, advance(t, expr.s)))
            ELSE PResult(consumeNewline(t, expr.s),
                         IF ok(expr.s) /\ expr.node.type = "CallExpression"
                         THEN [type |-> "CallStatement", name |-> expr.node.name,
                               arguments |-> expr.node.arguments]
                         ELSE expr.node)
    IN node(expression(t, s))

RECURSIVE skipNewlines(_, _)
skipNewlines(t, s) == IF check(t, s, "NEWLINE") THEN skipNewlines(t, advance(t, s)) ELSE s

\* statement(): skip newlines, dispatch on the first token; whatever is thrown
\* inside is caught and thrown again as a SyntaxError with the same message
statement(t, s) ==
    LET dispatch(s0, type, s1) ==
            CASE isAtEnd(t, s0) -> PResult(s0, NoNode)
              [] type = "DECLARE" -> declareStatement(t, s1)
              [] type = "IF" -> ifStatement(t, s1)
              [] type = "CASE" -> caseStatement(t, s1)
              [] type = "FOR" -> forStatement(t, s1)
              [] type = "WHILE" -> whileStatement(t, s1)
              [] type = "REPEAT" -> repeatStatement(t, s1)
              [] type = "PROCEDURE" -> procedureDeclaration(t, s1)
              [] type = "FUNCTION" -> functionDeclaration(t, s1)
              [] type = "CALL" -> callStatement(t, s1)
              [] type = "INPUT" -> inputStatement(t, s1)
              [] type = "OUTPUT" -> outputStatement(t, s1)
              [] type = "RETURNS" -> returnStatement(t, s1)
              [] type = "OPENFILE" -> openFileStatement(t, s1)
              [] type = "CLOSEFILE" -> closeFileStatement(t, s1)
              [] type = "TYPE" -> typeDeclaration(t, s1)
              [] OTHER -> assignmentOrExpressionStatement(t, s0)
        rethrow(r) ==
            IF r.s.error = NoError THEN r
            ELSE PResult(PState(r.s.current, Err("SyntaxError", r.s.error.message)), NoNode)
        skipped(s0) == rethrow(dispatch(s0, peek(t, s0).type, advance(t, s0)))
    IN IF ~ok(s) THEN PResult(s, NoNode) ELSE skipped(skipNewlines(t, s))

\* a parse that recovers: the statements before the first error are the program
parseRecovering(tokens) ==
    [error |-> NoError,
     ast |-> [type |-> "Program",
              body |-> block(tokens, PState(1, NoError), {}, <<>>).node]]

\* parse(): statements to the end of the tokens; the first error thrown by
\* statement() leaves parse() as an exception and no Program node is built
parse(tokens) ==
    LET program(body) ==
            IF ok(body.s)
            THEN [error |-> NoError, ast |-> [type |-> "Program", body |-> body.node]]
            ELSE [error |-> body.s.error, ast |-> NoNode]
    IN program(block(tokens, PState(1, NoError), {}, <<>>))

(***************************************************************************)
(* Variable atoms (VariableAtomFactory and the atoms' validateValue).      *)
(***************************************************************************)
RuntimeError(message) == Err("RuntimeError", message)

\* validateValue(value) of the atom class createAtom picks for `type`
validateValue(type, value) ==
    CASE type.kind = "primitive" /\ type.name = "INTEGER" ->
            IF value.kind = "number" /\ value.d = 1 THEN NoError
            ELSE RuntimeError("Expected INTEGER, got " \o typeof(value))
      [] type.kind = "primitive" /\ type.name = "REAL" ->
            IF typeof(value) = "number" THEN NoError
            ELSE RuntimeError("Expected REAL, got " \o typeof(value))
      [] type.kind = "primitive" /\ type.name = "CHAR" ->
            IF value.kind = "string" /\ Len(value.s) = 1 THEN NoError
            ELSE RuntimeError("Expected CHAR (single character), got " \o typeof(value))
      [] type.kind = "primitive" /\ type.name = "STRING" ->
            IF value.kind = "string" THEN NoError
            ELSE RuntimeError("Expected STRING, got " \o typeof(value))
      [] type.kind = "primitive" /\ type.name = "BOOLEAN" ->
            IF value.kind = "boolean" THEN NoError
            ELSE RuntimeError("Expected BOOLEAN, got " \o typeof(value))
      [] type.kind = "primitive" /\ type.name = "DATE" ->
            IF value.kind = "object" /\ value.s = "Date" THEN NoError
            ELSE RuntimeError("Expected DATE, got " \o typeof(value))
      [] type.kind = "array" ->
            \* no value of the model is a JavaScript array
            RuntimeError("Expected ARRAY, got " \o typeof(value))
      [] type.kind = "userDefined" ->
            IF value.kind # "object"
            THEN RuntimeError("Expected user-defined type '" \o type.name \o "', got "
                              \o typeof(value))
            ELSE IF type.fields # <<>>
            THEN RuntimeError("Missing field '" \o type.fields[1].name
                              \o "' in user-defined type '" \o type.name \o "'")
            ELSE NoError
      [] OTHER -> RuntimeError("Unsupported type: " \o type.name)

\* VariableAtomFactory.createAtom: the constructor validates, then stores
createAtom(type, value, isConstant) ==
    [error |-> validateValue(type, value),
     atom |-> [type |-> type, value |-> value, isConstant |-> isConstant]]

(***************************************************************************)
(* Environment.  Environments live in one arena `envs`; an Environment     *)
(* object is its index, 0 is `undefined` (no parent).                      *)
(***************************************************************************)
NewEnvironment(parent, by) ==
    [parent |-> parent, variables |-> EmptyMap, routines |-> EmptyMap,
     fileHandles |-> EmptyMap, nextFileHandle |-> 1, createdBy |-> by]

\* a resolution that looks at the scope `id` alone
lookupLocal(envs, id, field, name) ==
    IF id # 0 /\ name \in DOMAIN envs[id][field] THEN id ELSE 0

\* the nearest environment from `id` outwards whose `field` map holds `name`
RECURSIVE lookup(_, _, _, _)
lookup(envs, id, field, name) ==
    IF id = 0 THEN 0
    ELSE IF name \in DOMAIN envs[id][field] THEN id
    ELSE lookup(envs, envs[id].parent, field, name)

\* a define that replaces the binding the scope already has
defineOverwriting(envs, id, name, type, value, isConstant) ==
    LET made == createAtom(type, value, isConstant)
    IN IF made.error # NoError THEN [error |-> made.error, envs |-> envs]
       ELSE [error |-> NoError,
             envs |-> [envs EXCEPT ![id].variables = MapSet(@, name, made.atom)]]

define(envs, id, name, type, value, isConstant) ==
    LET made == createAtom(type, value, isConstant)
    IN IF name \in DOMAIN envs[id].variables
       THEN [error |-> RuntimeError("Variable '" \o name \o "' already declared in this scope"),
             envs |-> envs]
       ELSE IF made.error # NoError THEN [error |-> made.error, envs |-> envs]
       ELSE [error |-> NoError,
             envs |-> [envs EXCEPT ![id].variables = MapSet(@, name, made.atom)]]

get(envs, id, name) ==
    LET at == lookup(envs, id, "variables", name)
    IN IF at = 0
       THEN [error |-> RuntimeError("Undefined variable '" \o name \o "'"), value |-> Undefined]
       ELSE [error |-> NoError, value |-> envs[at].variables[name].value]

getType(envs, id, name) ==
    LET at == lookup(envs, id, "variables", name)
    IN IF at = 0
       THEN [error |-> RuntimeError("Undefined variable '" \o name \o "'"),
             type |-> PrimitiveType("")]
       ELSE [error |-> NoError, type |-> envs[at].variables[name].type]

has(envs, id, name) == lookup(envs, id, "variables", name) # 0

\* an assignment that stores the new value without validating it
assignUnvalidated(envs, id, name, value) ==
    LET at == lookup(envs, id, "variables", name)
    IN IF at = 0
       THEN [error |-> RuntimeError("Undefined variable '" \o name \o "'"), envs |-> envs]
       ELSE [error |-> NoError, envs |-> [envs EXCEPT ![at].variables[name].value = value]]

\* assign: the nearest scope holding the name; a constant refuses, the atom's
\* setter validates the new value against the atom's type
assign(envs, id, name, value) ==
    LET at == lookup(envs, id, "variables", name)
        atom == envs[at].variables[name]
    IN IF at = 0
       THEN [error |-> RuntimeError("Undefined variable '" \o name \o "'"), envs |-> envs]
       ELSE IF atom.isConstant
       THEN [error |-> RuntimeError("Cannot assign to constant '" \o name \o "'"),
             envs |-> envs]
       ELSE IF validateValue(atom.type, value) # NoError
       THEN [error |-> validateValue(atom.type, value), envs |-> envs]
       ELSE [error |-> NoError, envs |-> [envs EXCEPT ![at].variables[name].value = value]]

defineRoutine(envs, id, signature) ==
    IF signature.name \in DOMAIN envs[id].routines
    THEN [error |-> RuntimeError("Routine '" \o signature.name \o "' already declared"),
          envs |-> envs]
    ELSE [error |-> NoError,
          envs |-> [envs EXCEPT ![id].routines = MapSet(@, signature.name, signature)]]

getRoutine(envs, id, name) ==
    LET at == lookup(envs, id, "routines", name)
    IN IF at = 0
       THEN [error |-> RuntimeError("Undefined routine '" \o name \o "'"),
             signature |-> [name |-> name, parameters |-> <<>>]]
       ELSE [error |-> NoError, signature |-> envs[at].routines[name]]

allocateFileHandle(envs, id, variableName) ==
    [envs EXCEPT ![id].fileHandles = MapSet(@, variableName, envs[id].nextFileHandle),
                 ![id].nextFileHandle = @ + 1]

getFileHandle(envs, id, variableName) ==
    LET at == lookup(envs, id, "fileHandles", variableName)
    IN IF at = 0
       THEN [error |-> RuntimeError("Undefined file handle '" \o variableName \o "'"),
             handle |-> 0]
       ELSE [error |-> NoError, handle |-> envs[at].fileHandles[variableName]]

\* a release that leaves the binding in place
releaseFileHandleKeeping(envs, id, variableName) ==
    LET at == lookup(envs, id, "fileHandles", variableName)
    IN IF at = 0
       THEN [error |-> RuntimeError("Undefined file handle '" \o variableName \o "'"),
             envs |-> envs]
       ELSE [error |-> NoError, envs |-> envs]

releaseFileHandle(envs, id, variableName) ==
    LET at == lookup(envs, id, "fileHandles", variableName)
    IN IF at = 0
       THEN [error |-> RuntimeError("Undefined file handle '" \o variableName \o "'"),
             envs |-> envs]
       ELSE [error |-> NoError,
             envs |-> [envs EXCEPT ![at].fileHandles = MapDelete(@, variableName)]]

\* createChild(): new Environment(this), the last environment of the arena
createChild(envs, id, by) == Append(envs, NewEnvironment(id, by))

\* new ExecutionContext(environment)
NewExecutionContext(environment) ==
    [environment |-> environment, returnValue |-> Undefined, shouldReturn |-> FALSE,
     callStack |-> <<>>]

(***************************************************************************)
(* The Evaluator.  An `await this.evaluate(child)` suspends the calling     *)
(* method, so every evaluate... method is modelled as a frame: the node, the*)
(* position reached in the method (pc, idx), the values its awaited         *)
(* children returned (vals) and its other locals (saved).  A method is run  *)
(* from its position up to its next await, return or throw, on the world    *)
(*   w = [envs, contexts, objects, ev, io]                                  *)
(* where ev holds the fields of this Evaluator (environment, context,       *)
(* globalRoutines) and io is the I/O collaborator.                          *)
(***************************************************************************)
Frame(node, void) ==
    [node |-> node, pc |-> 0, idx |-> 0, vals |-> <<>>, saved |-> <<>>, void |-> void]

Outcome(w, op, f, nodes, v, e) ==
    [w |-> w, op |-> op, f |-> f, nodes |-> nodes, v |-> v, e |-> e]

\* value = await this.evaluate(node): the value is appended to f.vals
Call(w, f, node) == Outcome(w, "call", f, <<node>>, Undefined, NoError)

\* await this.evaluate(node), the value unused
Exec(w, f, node) == Outcome(w, "exec", f, <<node>>, Undefined, NoError)

\* await Promise.all(nodes.map(n => this.evaluate(n)))
CallAll(w, f, nodes) == Outcome(w, "callAll", f, nodes, Undefined, NoError)

\* return v
Ret(w, v) == Outcome(w, "ret", Frame(NoNode, TRUE), <<>>, v, NoError)

\* throw e
Throw(w, e) == Outcome(w, "throw", Frame(NoNode, TRUE), <<>>, Undefined, e)

\* await of a promise of the I/O collaborator: "input" is settled by the user,
\* "io" resolves to v
Await(w, f, kind, v) == Outcome(w, kind, f, <<>>, v, NoError)

\* this.context.shouldReturnFromRoutine()
shouldReturnFromRoutine(w) == w.contexts[w.ev.context].shouldReturn

\* for (const statement of body) { await this.evaluate(statement);
\*   if (this.context.shouldReturnFromRoutine()) return; }  and then `after`
statements(w, f, body, after) ==
    IF f.idx > 0 /\ shouldReturnFromRoutine(w) THEN Ret(w, Undefined)
    ELSE IF f.idx < Len(body) THEN Exec(w, [f EXCEPT !.idx = @ + 1], body[f.idx + 1])
    ELSE after

\* the I/O collaborator (MockIO): output pushes the text to its buffer
output(io, data) == [io EXCEPT !.outputBuffer = Append(@, data)]

evaluateProgram(w, f) ==
    IF (f.idx > 0 /\ shouldReturnFromRoutine(w)) \/ f.idx = Len(f.node.body)
    THEN Ret(w, IF f.vals = <<>> THEN Undefined ELSE Last(f.vals))
    ELSE Call(w, [f EXCEPT !.idx = @ + 1, !.vals = <<>>], f.node.body[f.idx + 1])

evaluateLiteral(w, f) == Ret(w, f.node.value)

evaluateIdentifier(w, f) ==
    LET got == get(w.envs, w.ev.environment, f.node.name)
    IN IF got.error # NoError THEN Throw(w, got.error) ELSE Ret(w, got.value)

evaluateBinaryExpression(w, f) ==
    LET left == f.vals[1]
        right == f.vals[2]
        operator == f.node.operator
        zero == Number(right) = Num(0)
    IN CASE f.pc = 0 -> Call(w, [f EXCEPT !.pc = 1], f.node.left)
         [] f.pc = 1 -> Call(w, [f EXCEPT !.pc = 2], f.node.right)
         [] OTHER ->
            CASE operator = "+" -> Ret(w, jsPlus(left, right))
              [] operator = "&" -> Ret(w, Str(jsString(left) \o jsString(right)))
              [] operator = "-" -> Ret(w, jsSubtract(Number(left), Number(right)))
              [] operator = "*" -> Ret(w, jsMultiply(Number(left), Number(right)))
              [] operator = "/" ->
                    IF zero THEN Throw(w, Err("DivisionByZeroError", "Division by zero"))
                    ELSE Ret(w, jsDivide(Number(left), Number(right)))
              [] operator = "DIV" ->
                    IF zero THEN Throw(w, Err("DivisionByZeroError", "Division by zero"))
                    ELSE Ret(w, jsFloor(jsDivide(Number(left), Number(right))))
              [] operator = "MOD" ->
                    IF zero THEN Throw(w, Err("DivisionByZeroError", "Division by zero"))
                    ELSE Ret(w, jsRemainder(Number(left), Number(right)))
              [] operator = "=" -> Ret(w, Bool(isEqual(left, right)))
              [] operator = "<>" -> Ret(w, Bool(~isEqual(left, right)))
              [] operator = "<" -> Ret(w, Bool(jsLess(Number(left), Number(right))))
              [] operator = ">" -> Ret(w, Bool(jsLess(Number(right), Number(left))))
              [] operator = "<=" -> Ret(w, Bool(jsLessEq(Number(left), Number(right))))
              [] operator = ">=" -> Ret(w, Bool(jsLessEq(Number(right), Number(left))))
              \* a && b and a || b of two booleans
              [] operator = "AND" -> Ret(w, Bool(isTruthy(left) /\ isTruthy(right)))
              [] operator = "OR" -> Ret(w, Bool(isTruthy(left) \/ isTruthy(right)))
              [] OTHER -> Throw(w, RuntimeError("Unknown binary operator: " \o operator))

evaluateUnaryExpression(w, f) ==
    IF f.pc = 0 THEN Call(w, [f EXCEPT !.pc = 1], f.node.operand)
    ELSE CASE f.node.operator = "-" -> Ret(w, jsNegate(Number(f.vals[1])))
           [] f.node.operator = "NOT" -> Ret(w, Bool(~isTruthy(f.vals[1])))
           [] OTHER -> Throw(w, RuntimeError("Unknown unary operator: " \o f.node.operator))

\* getArrayElement / setArrayElement: no value of the model is a JavaScript
\* array, and a variable's value is never a VariableAtom
getArrayElement(w, array, indices) == Throw(w, RuntimeError("Array access on non-array value"))

setArrayElement(w, array, indices, value) ==
    Throw(w, RuntimeError("Array access on non-array value"))

evaluateArrayAccess(w, f) ==
    CASE f.pc = 0 -> Call(w, [f EXCEPT !.pc = 1], f.node.array)
      [] f.pc = 1 -> CallAll(w, [f EXCEPT !.pc = 2], f.node.indices)
      [] OTHER -> getArrayElement(w, f.vals[1], Tail(f.vals))

evaluateDeclareStatement(w, f) ==
    LET dataType == f.node.dataType
        primitive == dataType.kind = "primitive"
        date == primitive /\ dataType.name = "DATE"
        initialValue ==
            CASE primitive /\ dataType.name \in {"INTEGER", "REAL"} -> Num(0)
              [] primitive /\ dataType.name \in {"CHAR", "STRING"} -> Str("")
              [] primitive /\ dataType.name = "BOOLEAN" -> Bool(FALSE)
              [] date -> Ref(w.objects + 1, "Date")
              [] OTHER -> Undefined
        defined == define(w.envs, w.ev.environment, f.node.name, dataType, initialValue,
                          f.node.isConstant)
    IN IF dataType.kind = "array"
       \* createEmptyArray reads arrayType.bounds.length; the parser's array type
       \* has `dimensions` and no `bounds`
       THEN Throw(w, Err("globalThis.TypeError",
                         "Cannot read properties of undefined (reading 'length')"))
       ELSE IF defined.error # NoError THEN Throw(w, defined.error)
       ELSE Ret([w EXCEPT !.envs = defined.envs,
                          !.objects = IF date THEN @ + 1 ELSE @], Undefined)

evaluateAssignment(w, f) ==
    LET target == f.node.target
        assigned == assign(w.envs, w.ev.environment, target.name, f.vals[1])
    IN CASE f.pc = 0 -> Call(w, [f EXCEPT !.pc = 1], f.node.value)
         [] f.pc = 1 /\ target.type = "Identifier" ->
                IF assigned.error # NoError THEN Throw(w, assigned.error)
                ELSE Ret([w EXCEPT !.envs = assigned.envs], Undefined)
         [] f.pc = 1 /\ target.type = "ArrayAccess" -> Call(w, [f EXCEPT !.pc = 2], target.array)
         [] f.pc = 2 -> CallAll(w, [f EXCEPT !.pc = 3], target.indices)
         [] f.pc = 3 -> setArrayElement(w, f.vals[2], SubSeq(f.vals, 3, Len(f.vals)), f.vals[1])
         [] OTHER -> Throw(w, RuntimeError("Invalid assignment target"))

evaluateIf(w, f) ==
    IF f.pc = 0 THEN Call(w, [f EXCEPT !.pc = 1], f.node.condition)
    ELSE statements(w, f,
                    IF isTruthy(f.vals[1]) THEN f.node.thenBranch
                    ELSE IF f.node.hasElse THEN f.node.elseBranch ELSE <<>>,
                    Ret(w, Undefined))

\* saved[1] is the index of the case item in hand; vals[1] is expressionValue
evaluateCase(w, f) ==
    LET cases == f.node.cases
        caseItem == cases[f.saved[1]]
        otherwise(g) ==
            IF f.node.hasOtherwise
            THEN statements(w, [g EXCEPT !.pc = 5], f.node.otherwise, Ret(w, Undefined))
            ELSE Ret(w, Undefined)
        head(g) ==
            LET values == cases[g.saved[1]].values
            IN IF g.saved[1] > Len(cases) THEN otherwise(g)
               ELSE IF Len(values) \in {1, 2}
               THEN Call(w, [g EXCEPT !.pc = IF Len(values) = 2 THEN 2 ELSE 3,
                                      !.vals = <<g.vals[1]>>], values[1])
               ELSE Throw(w, RuntimeError("Invalid case item"))
        \* value1 <= expressionValue && expressionValue <= value2 (on numbers), or
        \* isEqual(expressionValue, value)
        selected ==
            IF Len(caseItem.values) = 2
            THEN jsLessEq(f.vals[2], f.vals[1]) /\ jsLessEq(f.vals[1], f.vals[3])
            ELSE isEqual(f.vals[1], f.vals[2])
    IN CASE f.pc = 0 -> Call(w, [f EXCEPT !.pc = 1, !.saved = <<1>>], f.node.expression)
         [] f.pc = 1 -> head(f)
         [] f.pc = 2 -> Call(w, [f EXCEPT !.pc = 3], caseItem.values[2])
         [] f.pc = 3 ->
                IF selected
                THEN statements(w, [f EXCEPT !.pc = 4], caseItem.body, Ret(w, Undefined))
                ELSE head([f EXCEPT !.saved = <<@[1] + 1>>])
         [] f.pc = 4 -> statements(w, f, caseItem.body, Ret(w, Undefined))
         [] OTHER -> statements(w, f, f.node.otherwise, Ret(w, Undefined))

RECURSIVE forLoop(_, _, _)

\* a loop test that leaves the end value out
forLoopExclusive(w, f, currentValue) ==
    LET end == f.vals[2]
        step == IF f.node.hasStep THEN f.vals[3] ELSE Num(1)
        increment == jsLess(Num(0), step)
        assigned == assign(w.envs, w.ev.environment, f.node.variable, currentValue)
        w1 == [w EXCEPT !.envs = assigned.envs]
    IN IF ~(IF increment THEN jsLess(currentValue, end) ELSE jsLess(end, currentValue))
       THEN Ret(w, Undefined)
       ELSE IF assigned.error # NoError THEN Throw(w, assigned.error)
       ELSE IF f.node.body # <<>>
       THEN Exec(w1, [f EXCEPT !.pc = 4, !.idx = 1], f.node.body[1])
       ELSE forLoop(w1, f, jsPlus(get(w1.envs, w1.ev.environment, f.node.variable).value,
                                  step))

\* the loop test of evaluateFor and the start of an iteration; vals is
\* <<start, end>> or <<start, end, step>>
forLoop(w, f, currentValue) ==
    LET end == f.vals[2]
        step == IF f.node.hasStep THEN f.vals[3] ELSE Num(1)
        increment == jsLess(Num(0), step)
        assigned == assign(w.envs, w.ev.environment, f.node.variable, currentValue)
        w1 == [w EXCEPT !.envs = assigned.envs]
    IN IF ~(IF increment THEN jsLessEq(currentValue, end) ELSE jsLessEq(end, currentValue))
       THEN Ret(w, Undefined)
       ELSE IF assigned.error # NoError THEN Throw(w, assigned.error)
       ELSE IF f.node.body # <<>>
       THEN Exec(w1, [f EXCEPT !.pc = 4, !.idx = 1], f.node.body[1])
       ELSE forLoop(w1, f, jsPlus(get(w1.envs, w1.ev.environment, f.node.variable).value,
                                  step))

evaluateFor(w, f) ==
    LET variable == f.node.variable
        step == IF f.node.hasStep THEN f.vals[3] ELSE Num(1)
        defined == IF has(w.envs, w.ev.environment, variable)
                   THEN [error |-> NoError, envs |-> w.envs]
                   ELSE define(w.envs, w.ev.environment, variable, PrimitiveType("INTEGER"),
                               f.vals[1], FALSE)
        got == get(w.envs, w.ev.environment, variable)
    IN CASE f.pc = 0 -> Call(w, [f EXCEPT !.pc = 1], f.node.start)
         [] f.pc = 1 -> Call(w, [f EXCEPT !.pc = 2], f.node.end)
         [] f.pc = 2 /\ f.node.hasStep -> Call(w, [f EXCEPT !.pc = 3], f.node.step)
         [] f.pc = 3 \/ (f.pc = 2 /\ ~f.node.hasStep) ->
                IF defined.error # NoError THEN Throw(w, defined.error)
                ELSE forLoop([w EXCEPT !.envs = defined.envs], f, f.vals[1])
         [] OTHER ->
                IF shouldReturnFromRoutine(w) THEN Ret(w, Undefined)
                ELSE IF f.idx < Len(f.node.body)
                THEN Exec(w, [f EXCEPT !.idx = @ + 1], f.node.body[f.idx + 1])
                ELSE IF got.error # NoError THEN Throw(w, got.error)
                ELSE forLoop(w, f, jsPlus(got.value, step))

evaluateWhile(w, f) ==
    LET again == [f EXCEPT !.pc = 1, !.idx = 0, !.vals = <<>>]
    IN IF f.pc = 0 THEN Call(w, again, f.node.condition)
       ELSE IF f.idx = 0 /\ ~isTruthy(f.vals[1]) THEN Ret(w, Undefined)
       ELSE statements(w, f, f.node.body, Call(w, again, f.node.condition))

evaluateRepeat(w, f) ==
    LET g == IF f.pc = 1 THEN [f EXCEPT !.pc = 0, !.idx = 0, !.vals = <<>>] ELSE f
    IN IF f.pc = 1 /\ isTruthy(f.vals[1]) THEN Ret(w, Undefined)
       ELSE statements(w, g, f.node.body, Call(w, [g EXCEPT !.pc = 1], f.node.condition))

\* the signature evaluateProcedureDeclaration / evaluateFunctionDeclaration build
RoutineSignature(node) ==
    [name |-> node.name,
     parameters |-> [i \in 1..Len(node.parameters) |->
                        [name |-> node.parameters[i].name,
                         type |-> node.parameters[i].dataType,
                         mode |-> node.parameters[i].mode]]]

evaluateProcedureDeclaration(w, f) ==
    LET defined == defineRoutine(w.envs, w.ev.environment, RoutineSignature(f.node))
    IN IF defined.error # NoError THEN Throw(w, defined.error)
       ELSE Ret([w EXCEPT !.envs = defined.envs,
                          !.ev.globalRoutines = MapSet(@, f.node.name, f.node)], Undefined)

evaluateFunctionDeclaration(w, f) ==
    LET defined == defineRoutine(w.envs, w.ev.environment, RoutineSignature(f.node))
    IN IF defined.error # NoError THEN Throw(w, defined.error)
       ELSE Ret([w EXCEPT !.envs = defined.envs,
                          !.ev.globalRoutines = MapSet(@, f.node.name, f.node)], Undefined)

\* routineEnvironment.define(param.name, param.type, args[i]) for each parameter
RECURSIVE defineParameters(_, _, _, _, _)
defineParameters(envs, id, parameters, args, i) ==
    LET arg == IF i <= Len(args) THEN args[i] ELSE Undefined
        defined == define(envs, id, parameters[i].name, parameters[i].type, arg, FALSE)
    IN IF i > Len(parameters) THEN [error |-> NoError, envs |-> envs]
       ELSE IF defined.error # NoError THEN defined
       ELSE defineParameters(defined.envs, id, parameters, args, i + 1)

\* String(index) clamped as String.prototype.substring clamps an index: NaN and
\* negative numbers are 0, fractions are truncated, nothing exceeds the length
substringIndex(v, length) ==
    IF ~IsNumber(Number(v)) \/ Number(v).n <= 0 THEN 0
    ELSE IF Number(v).n \div Number(v).d > length THEN length
    ELSE Number(v).n \div Number(v).d

\* str.substring(start, end): the characters from the smaller to the larger index
substring(str, start, end) ==
    LET from == substringIndex(start, Len(str))
        to == IF end.kind = "undefined" THEN Len(str) ELSE substringIndex(end, Len(str))
    IN IF from <= to THEN SubSeq(str, from + 1, to) ELSE SubSeq(str, to + 1, from)

\* Math.min(a, b) of two numbers
mathMin(a, b) == IF ~IsNumber(a) \/ ~IsNumber(b) THEN NaN ELSE IF jsLess(b, a) THEN b ELSE a

\* the names of the table builtInFunctions
builtInFunctions == {"LENGTH", "LEFT", "RIGHT", "MID"}

\* globalRoutines after initializeBuiltInRoutines
BuiltInRoutines == [name \in builtInFunctions |-> [type |-> "BuiltIn", name |-> name]]

\* builtInFunctions[name].implementation(args): its value, or the native
\* TypeError of reading a property of undefined or of calling what a value of
\* another type has in the place of substring
implementation(name, args) ==
    LET arg(i) == IF i <= Len(args) THEN args[i] ELSE Undefined
        str == arg(1)
        length == IF str.kind = "string" THEN Num(Len(str.s)) ELSE Undefined
        property == IF name = "LENGTH" THEN "length" ELSE "substring"
    IN IF str.kind \in {"undefined", "null"}
       THEN [error |-> Err("globalThis.TypeError",
                           "Cannot read properties of " \o jsString(str)
                           \o " (reading '" \o property \o "')"),
             value |-> Undefined]
       ELSE IF name = "LENGTH" THEN [error |-> NoError, value |-> length]
       ELSE IF str.kind # "string"
       THEN [error |-> Err("globalThis.TypeError", "args[0].substring is not a function"),
             value |-> Undefined]
       ELSE [error |-> NoError,
             value |-> Str(CASE name = "LEFT" -> substring(str.s, Num(0), arg(2))
                             [] name = "RIGHT" ->
                                    substring(str.s, jsSubtract(length, Number(arg(2))),
                                              Undefined)
                             [] OTHER ->
                                    substring(str.s, arg(2),
                                              mathMin(Number(jsPlus(arg(2), arg(3))),
                                                      length)))]

evaluateCallExpression(w, f) ==
    LET routineName == f.node.name
        found == getRoutine(w.envs, w.ev.environment, routineName)
        routineEnvironment == Len(w.envs) + 1
        routineContext == Len(w.contexts) + 1
        defined == defineParameters(createChild(w.envs, w.ev.environment, w.ev.id),
                                    routineEnvironment, f.saved[1].parameters, f.vals, 1)
        pushed == [w.contexts EXCEPT ![w.ev.context].callStack =
                      Append(@, [routineName |-> routineName,
                                 environment |-> w.ev.environment])]
        known == routineName \in DOMAIN w.ev.globalRoutines
        routine == w.ev.globalRoutines[routineName]
        builtIn == known /\ routine.type = "BuiltIn"
        implemented == implementation(routineName, f.vals)
        body == IF known THEN routine.body ELSE <<>>
        \* the loop over the routine's body, then the restore and the pop;
        \* g.saved is <<signature, previousContext, previousEnvironment>>
        run(w1, g) ==
            IF (g.idx > 0 /\ shouldReturnFromRoutine(w1)) \/ g.idx >= Len(body)
            THEN Ret([w1 EXCEPT !.ev.context = g.saved[2],
                                !.ev.environment = g.saved[3],
                                !.contexts[g.saved[2]].callStack =
                                     IF @ = <<>> THEN @ ELSE Front(@)],
                     IF known /\ routine.type = "FunctionDeclaration"
                     THEN w1.contexts[w1.ev.context].returnValue
                     ELSE Undefined)
            ELSE Exec(w1, [g EXCEPT !.idx = @ + 1], body[g.idx + 1])
    IN CASE f.pc = 0 /\ builtIn -> CallAll(w, [f EXCEPT !.pc = 3], f.node.arguments)
         [] f.pc = 3 ->
                IF implemented.error # NoError THEN Throw(w, implemented.error)
                ELSE Ret(w, implemented.value)
         [] f.pc = 0 ->
                IF found.error # NoError THEN Throw(w, found.error)
                ELSE CallAll(w, [f EXCEPT !.pc = 1, !.saved = <<found.signature>>],
                             f.node.arguments)
         [] f.pc = 1 ->
                IF defined.error # NoError
                THEN Throw([w EXCEPT !.envs = defined.envs], defined.error)
                ELSE run([w EXCEPT !.envs = defined.envs,
                                   !.contexts = Append(pushed,
                                        NewExecutionContext(routineEnvironment)),
                                   !.ev.context = routineContext,
                                   !.ev.environment = routineEnvironment],
                         [f EXCEPT !.pc = 2, !.vals = <<>>,
                                   !.saved = <<f.saved[1], w.ev.context, w.ev.environment>>])
         [] OTHER -> run(w, f)

\* await this.evaluateCallExpression({type: 'CallExpression', ...}), value dropped
evaluateCallStatement(w, f) ==
    LET called == evaluateCallExpression(w, f)
    IN IF called.op = "ret" THEN Ret(called.w, Undefined) ELSE called

\* values.join('')
RECURSIVE join(_)
join(values) == IF values = <<>> THEN "" ELSE jsString(Head(values)) \o join(Tail(values))

\* io.input(promptText), the call: MockIO outputs a non-empty prompt
evaluateInput(w, f) ==
    LET promptText == IF f.node.hasPrompt THEN jsString(f.vals[1]) ELSE ""
        asked == [w EXCEPT !.io = IF promptText # "" THEN output(@, promptText) ELSE @,
                           !.ev.calls = @ + 1]
        targetName == f.node.target.name
        targetType == getType(w.envs, w.ev.environment, targetName)
        value == convertInput(Last(f.vals).s, targetType.type)
        assigned == assign(w.envs, w.ev.environment, targetName, value)
    IN CASE f.pc = 0 /\ f.node.hasPrompt -> Call(w, [f EXCEPT !.pc = 1], f.node.prompt)
         [] f.pc = 1 \/ (f.pc = 0 /\ ~f.node.hasPrompt) ->
                Await(asked, [f EXCEPT !.pc = 2], "input", Undefined)
         [] OTHER ->
                IF f.node.target.type # "Identifier"
                THEN Throw(w, RuntimeError("Invalid input target"))
                ELSE IF targetType.error # NoError THEN Throw(w, targetType.error)
                ELSE IF assigned.error # NoError THEN Throw(w, assigned.error)
                ELSE Ret([w EXCEPT !.envs = assigned.envs], Undefined)

evaluateOutput(w, f) ==
    IF f.idx < Len(f.node.expressions)
    THEN Call(w, [f EXCEPT !.idx = @ + 1], f.node.expressions[f.idx + 1])
    ELSE Ret([w EXCEPT !.io = output(@, join(f.vals) \o "\n"), !.ev.calls = @ + 1],
             Undefined)

evaluateReturn(w, f) ==
    IF f.pc = 0 /\ f.node.hasValue THEN Call(w, [f EXCEPT !.pc = 1], f.node.value)
    ELSE Ret([w EXCEPT !.contexts[w.ev.context].returnValue =
                            IF f.node.hasValue THEN f.vals[1] ELSE Undefined,
                       !.contexts[w.ev.context].shouldReturn = TRUE], Undefined)

\* MockIO.openRandomFile(path): handle = nextFileHandle++
openRandomFile(io, path) ==
    [io EXCEPT !.randomFiles = MapSet(@, io.nextFileHandle, path),
               !.nextFileHandle = @ + 1]

\* MockIO.writeFile(path, '') and MockIO.appendFile(path, '')
writeFile(io, path, append) ==
    [io EXCEPT !.writtenFiles =
        IF append /\ path \in DOMAIN @ THEN @ ELSE MapSet(@, path, "")]

\* MockIO.closeFile(fileHandle)
closeFile(io, fileHandle) == [io EXCEPT !.randomFiles = MapDelete(@, fileHandle)]

evaluateOpenFile(w, f) ==
    LET path == jsString(f.vals[1])
        opened == Await([w EXCEPT !.io = openRandomFile(@, path), !.ev.calls = @ + 1],
                        [f EXCEPT !.pc = 3], "io", Num(w.io.nextFileHandle))
    IN CASE f.pc = 0 -> Call(w, [f EXCEPT !.pc = 1], f.node.filename)
         [] f.pc = 1 /\ f.node.fileHandle.type # "Identifier" ->
                Throw(w, RuntimeError("File handle must be an identifier"))
         [] f.pc = 1 /\ f.node.fileHandle.type = "Identifier"
                     /\ f.node.mode \in {"READ", "RANDOM"} -> opened
         [] f.pc = 1 /\ f.node.fileHandle.type = "Identifier"
                     /\ f.node.mode \in {"WRITE", "APPEND"} ->
                Await([w EXCEPT !.io = writeFile(@, path, f.node.mode = "APPEND"),
                                !.ev.calls = @ + 1],
                      [f EXCEPT !.pc = 2], "io", Undefined)
         [] f.pc = 1 /\ f.node.fileHandle.type = "Identifier" /\ f.node.mode \notin FileModes ->
                Throw(w, Err("FileIOError", "Failed to open file '" \o path
                                             \o "': Invalid file mode: " \o f.node.mode))
         [] f.pc = 2 -> opened
         [] OTHER ->
                Ret([w EXCEPT !.envs = allocateFileHandle(@, w.ev.environment,
                                                          f.node.fileHandle.name)],
                    Undefined)

\* String(error) of a RuntimeError thrown without a line is "RuntimeError: " + message
evaluateCloseFile(w, f) ==
    LET name == f.node.fileHandle.name
        handle == getFileHandle(w.envs, w.ev.environment, name)
        released == releaseFileHandle(w.envs, w.ev.environment, name)
        failed(error) ==
            Throw(w, Err("FileIOError",
                         "Failed to close file: " \o error.class \o ": " \o error.message))
    IN CASE f.node.fileHandle.type # "Identifier" ->
                Throw(w, RuntimeError("File handle must be an identifier"))
         [] f.node.fileHandle.type = "Identifier" /\ f.pc = 0 ->
                IF handle.error # NoError THEN failed(handle.error)
                ELSE Await([w EXCEPT !.io = closeFile(@, handle.handle), !.ev.calls = @ + 1],
                           [f EXCEPT !.pc = 1], "io", Undefined)
         [] OTHER ->
                IF released.error # NoError THEN failed(released.error)
                ELSE Ret([w EXCEPT !.envs = released.envs], Undefined)

evaluateTypeDeclaration(w, f) ==
    LET userType == UserDefinedTypeInfo(f.node.name, f.node.fields)
        defined == define(w.envs, w.ev.environment, f.node.name, userType,
                          Ref(w.objects + 1, "Object"), TRUE)
    IN IF defined.error # NoError THEN Throw([w EXCEPT !.objects = @ + 1], defined.error)
       ELSE Ret([w EXCEPT !.envs = defined.envs, !.objects = @ + 1], Undefined)

\* evaluate(node): the method the frame is in
evaluate(w, f) ==
    CASE f.node.type = "Program" -> evaluateProgram(w, f)
      [] f.node.type = "DeclareStatement" -> evaluateDeclareStatement(w, f)
      [] f.node.type = "Assignment" -> evaluateAssignment(w, f)
      [] f.node.type = "If" -> evaluateIf(w, f)
      [] f.node.type = "Case" -> evaluateCase(w, f)
      [] f.node.type = "For" -> evaluateFor(w, f)
      [] f.node.type = "While" -> evaluateWhile(w, f)
      [] f.node.type = "Repeat" -> evaluateRepeat(w, f)
      [] f.node.type = "ProcedureDeclaration" -> evaluateProcedureDeclaration(w, f)
      [] f.node.type = "FunctionDeclaration" -> evaluateFunctionDeclaration(w, f)
      [] f.node.type = "CallStatement" -> evaluateCallStatement(w, f)
      [] f.node.type = "Input" -> evaluateInput(w, f)
      [] f.node.type = "Output" -> evaluateOutput(w, f)
      [] f.node.type = "Return" -> evaluateReturn(w, f)
      [] f.node.type = "OpenFile" -> evaluateOpenFile(w, f)
      [] f.node.type = "CloseFile" -> evaluateCloseFile(w, f)
      [] f.node.type = "TypeDeclaration" -> evaluateTypeDeclaration(w, f)
      [] f.node.type = "BinaryExpression" -> evaluateBinaryExpression(w, f)
      [] f.node.type = "UnaryExpression" -> evaluateUnaryExpression(w, f)
      [] f.node.type = "Identifier" -> evaluateIdentifier(w, f)
      [] f.node.type = "Literal" -> evaluateLiteral(w, f)
      [] f.node.type = "ArrayAccess" -> evaluateArrayAccess(w, f)
      [] f.node.type = "CallExpression" -> evaluateCallExpression(w, f)
      [] OTHER -> Throw(w, RuntimeError("Unknown node type: " \o f.node.type))

(***************************************************************************)
(* Promises.  Each pending evaluate() promise that runs beside others (the  *)
(* elements of a Promise.all, and evaluateProgram itself) is a task with    *)
(* its own stack of frames.  Task 1 of an execution is evaluateProgram.     *)
(***************************************************************************)
Task(stack, parent, slot) ==
    [stack |-> stack, status |-> "ready", parent |-> parent, slot |-> slot,
     value |-> Undefined, error |-> NoError, join |-> <<>>]

\* the promise of task t rejects: so does a Promise.all waiting for it, and
\* with it the method awaiting that Promise.all; the other elements run on
RECURSIVE reject(_, _, _)
reject(ts, t, error) ==
    LET ts1 == [ts EXCEPT ![t].status = "failed", ![t].stack = <<>>, ![t].error = error]
        parent == ts[t].parent
    IN IF parent # 0 /\ ts[parent].status = "join" THEN reject(ts1, parent, error) ELSE ts1

\* the promise of task t resolves: a Promise.all waiting for it resolves once
\* every element has
resolve(ts, t, v) ==
    LET ts1 == [ts EXCEPT ![t].status = "done", ![t].stack = <<>>, ![t].value = v]
        parent == ts[t].parent
        slots == [ts[parent].join EXCEPT ![ts[t].slot] = [got |-> TRUE, value |-> v]]
        top == Len(ts[parent].stack)
    IN IF parent = 0 \/ ts[parent].status # "join" THEN ts1
       ELSE IF \A i \in 1..Len(slots) : slots[i].got
       THEN [ts1 EXCEPT ![parent].status = "ready", ![parent].join = <<>>,
                        ![parent].stack[top].vals =
                            @ \o [i \in 1..Len(slots) |-> slots[i].value]]
       ELSE [ts1 EXCEPT ![parent].join = slots]

\* what the outcome o of a run of the top frame of task t does to the tasks
settle(ts, t, o) ==
    LET stack == ts[t].stack
        below == Front(stack)
        n == Len(o.nodes)
    IN CASE o.op \in {"call", "exec"} \/ (o.op = "callAll" /\ n = 1) ->
                [ts EXCEPT ![t].stack =
                    below \o <<o.f, Frame(o.nodes[1], o.op = "exec")>>]
         [] o.op = "callAll" /\ n = 0 -> [ts EXCEPT ![t].stack = Append(below, o.f)]
         [] o.op = "callAll" /\ n > 1 ->
                [ts EXCEPT ![t].stack = Append(below, o.f), ![t].status = "join",
                           ![t].join = [i \in 1..n |-> [got |-> FALSE, value |-> Undefined]]]
                \o [i \in 1..n |-> Task(<<Frame(o.nodes[i], FALSE)>>, t, i)]
         [] o.op = "ret" /\ below # <<>> ->
                [ts EXCEPT ![t].stack =
                    IF Last(stack).void THEN below
                    ELSE [below EXCEPT ![Len(below)].vals = Append(@, o.v)]]
         [] o.op = "ret" /\ below = <<>> -> resolve(ts, t, o.v)
         [] o.op = "throw" -> reject(ts, t, o.e)
         [] o.op = "input" -> [ts EXCEPT ![t].stack = Append(below, o.f), ![t].status = "input"]
         \* a promise of the I/O collaborator that is already resolved
         [] o.op = "io" ->
                [ts EXCEPT ![t].stack = Append(below, [o.f EXCEPT !.vals = Append(@, o.v)])]

(***************************************************************************)
(* The programs given to execute: lines of lexemes.                        *)
(***************************************************************************)
\* a loop that never ends
LoopProgram ==
    << <<"WHILE", "TRUE">>,
       <<"ENDWHILE">> >>

\* the program of the test 'should handle recursive function', as written
FactorialTest ==
    << <<"FUNCTION", "Factorial", "(", "n", ":", "INTEGER", ")", "RETURNS", "INTEGER">>,
       <<"IF", "n", "<=", "1", "THEN">>,
       <<"RETURN", "1">>,
       <<"ELSE">>,
       <<"RETURN", "n", "*", "Factorial", "(", "n", "-", "1", ")">>,
       <<"ENDIF">>,
       <<"ENDFUNCTION">>,
       <<>>,
       <<"OUTPUT", "Factorial", "(", "5", ")">> >>

\* the same program with the keyword the lexer knows
FactorialReturns ==
    << <<"FUNCTION", "Factorial", "(", "n", ":", "INTEGER", ")", "RETURNS", "INTEGER">>,
       <<"IF", "n", "<=", "1", "THEN">>,
       <<"RETURNS", "1">>,
       <<"ELSE">>,
       <<"RETURNS", "n", "*", "Factorial", "(", "n", "-", "1", ")">>,
       <<"ENDIF">>,
       <<"ENDFUNCTION">>,
       <<>>,
       <<"OUTPUT", "Factorial", "(", "5", ")">> >>

\* a declaration of an array
ArrayProgram ==
    << <<"DECLARE", "a", ":", "ARRAY", "OF", "INTEGER", "[", "3", "]">>,
       <<"OUTPUT", "1">> >>

\* a call whose first argument fails while its second argument is a call
ArgumentsProgram ==
    << <<"FUNCTION", "G", "(", ")", "RETURNS", "INTEGER">>,
       <<"OUTPUT", "\"late\"">>,
       <<"RETURNS", "1">>,
       <<"ENDFUNCTION">>,
       <<"PROCEDURE", "P", "(", "a", ":", "INTEGER", ",", "b", ":", "INTEGER", ")">>,
       <<"ENDPROCEDURE">>,
       <<"CALL", "P", "(", "x", ",", "G", "(", ")", ")">> >>

\* a routine that names a variable local to its caller
ScopeProgram ==
    << <<"PROCEDURE", "B", "(", ")">>,
       <<"OUTPUT", "x">>,
       <<"ENDPROCEDURE">>,
       <<"PROCEDURE", "A", "(", ")">>,
       <<"DECLARE", "x", ":", "INTEGER">>,
       <<"x", "<-", "5">>,
       <<"CALL", "B", "(", ")">>,
       <<"ENDPROCEDURE">>,
       <<"CALL", "A", "(", ")">> >>

\* a routine that assigns to its parameter, called next to another call
ParameterProgram ==
    << <<"DECLARE", "a", ":", "INTEGER">>,
       <<"FUNCTION", "F", "(", "p", ":", "INTEGER", ")", "RETURNS", "INTEGER">>,
       <<"RETURNS", "1">>,
       <<"ENDFUNCTION">>,
       <<"FUNCTION", "G", "(", "a", ":", "INTEGER", ")", "RETURNS", "INTEGER">>,
       <<"a", "<-", "8">>,
       <<"a", "<-", "9">>,
       <<"RETURNS", "2">>,
       <<"ENDFUNCTION">>,
       <<"PROCEDURE", "P", "(", "x", ":", "INTEGER", ",", "y", ":", "INTEGER", ")">>,
       <<"ENDPROCEDURE">>,
       <<"CALL", "P", "(", "F", "(", "1", ")", ",", "G", "(", "2", ")", ")">>,
       <<"OUTPUT", "a">> >>

\* a routine with a statement after its return, called next to another call
ReturnProgram ==
    << <<"FUNCTION", "F", "(", ")", "RETURNS", "INTEGER">>,
       <<"RETURNS", "1">>,
       <<"ENDFUNCTION">>,
       <<"FUNCTION", "G", "(", ")", "RETURNS", "INTEGER">>,
       <<"RETURNS", "2">>,
       <<"OUTPUT", "\"late\"">>,
       <<"ENDFUNCTION">>,
       <<"PROCEDURE", "P", "(", "x", ":", "INTEGER", ",", "y", ":", "INTEGER", ")">>,
       <<"ENDPROCEDURE">>,
       <<"CALL", "P", "(", "F", "(", ")", ",", "G", "(", ")", ")">> >>

\* a character no token starts with, after a statement that is well formed
CharacterProgram ==
    << <<"OUTPUT", "1">>,
       <<"x", "<-", "@">> >>

\* an IF without its ENDIF, after a statement that is well formed
EndifProgram ==
    << <<"OUTPUT", "1">>,
       <<"IF", "TRUE", "THEN">>,
       <<"OUTPUT", "2">> >>

\* a constant and an assignment to it
ConstantProgram ==
    << <<"CONSTANT", "PI", "=", "3.14">>,
       <<"PI", "<-", "3">>,
       <<"OUTPUT", "PI">> >>

\* a variable read from the user
InputProgram ==
    << <<"DECLARE", "x", ":", "INTEGER">>,
       <<"INPUT", "x">>,
       <<"OUTPUT", "x", "+", "1">> >>

\* a routine and a file handle
FileProgram ==
    << <<"PROCEDURE", "P", "(", ")">>,
       <<"OUTPUT", "\"a\"">>,
       <<"ENDPROCEDURE">>,
       <<"OPENFILE", "\"f\"", "FOR", "h">>,
       <<"CALL", "P", "(", ")">>,
       <<"CLOSEFILE", "h">> >>

\* an array with the bounds 1:3, an element written and read inside them
ArrayBoundsProgram ==
    << <<"DECLARE", "a", ":", "ARRAY", "[", "1", ":", "3", "]", "OF", "INTEGER">>,
       <<"a", "[", "2", "]", "<-", "5">>,
       <<"OUTPUT", "a", "[", "2", "]">> >>

\* an assignment of a valid value and then of a value of another type
TypeProgram ==
    << <<"DECLARE", "x", ":", "INTEGER">>,
       <<"x", "<-", "3">>,
       <<"x", "<-", "\"a\"">>,
       <<"OUTPUT", "x">> >>

\* DIV and MOD of 7 and 2 with each combination of signs: a DIV b and then
\* a MOD b for the operand pairs of DivModOperands, in that order
DivModProgram ==
    << <<"OUTPUT", "7", "DIV", "2">>,
       <<"OUTPUT", "7", "MOD", "2">>,
       <<"OUTPUT", "-", "7", "DIV", "2">>,
       <<"OUTPUT", "-", "7", "MOD", "2">>,
       <<"OUTPUT", "7", "DIV", "-", "2">>,
       <<"OUTPUT", "7", "MOD", "-", "2">>,
       <<"OUTPUT", "-", "7", "DIV", "-", "2">>,
       <<"OUTPUT", "-", "7", "MOD", "-", "2">> >>

\* a division of 10 by zero with the given operator
ZeroDivisionProgram(operator) ==
    << <<"OUTPUT", "10", operator, "0">> >>

DivisionOperators == {"/", "DIV", "MOD"}

\* the steps of the FOR loops of the catalogue; 0 stands for a loop without STEP
ForSteps == <<0, 1, 2, -1, -2>>

\* FOR i <- a TO b [STEP s] with the body OUTPUT i, laid out as the tests
\* 'should execute FOR loop' and 'should execute FOR loop with STEP' are
ForProgram(a, b, s) ==
    << <<"DECLARE", "i", ":", "INTEGER">>,
       <<"FOR", "i", "<-", NatToString(a), "TO", NatToString(b)>>
          \o (CASE s = 0 -> <<>>
                [] s > 0 -> <<"STEP", NatToString(s)>>
                [] OTHER -> <<"STEP", "-", NatToString(-s)>>),
       <<"OUTPUT", "i">>,
       <<"NEXT", "i">> >>

\* one ForProgram for every start, end and step
ForPrograms ==
    [k \in 1..(MaxFor * MaxFor * Len(ForSteps)) |->
        ForProgram(((k - 1) \div (MaxFor * Len(ForSteps))) + 1,
                   (((k - 1) \div Len(ForSteps)) % MaxFor) + 1,
                   ForSteps[((k - 1) % Len(ForSteps)) + 1])]

\* a CASE with a single-value label, a range label and, when `otherwise`, an
\* OTHERWISE branch, followed by one more statement
CaseProgram(selector, otherwise) ==
    << <<"DECLARE", "x", ":", "INTEGER">>,
       <<"x", "<-", NatToString(selector)>>,
       <<"CASE", "x", "OF">>,
       <<"1", ":", "OUTPUT", "\"one\"">>,
       <<"2", ",", "3", ":", "OUTPUT", "\"range\"">> >>
    \o (IF otherwise THEN << <<"OTHERWISE", ":", "OUTPUT", "\"other\"">> >> ELSE <<>>)
    \o << <<"ENDCASE">>,
          <<"OUTPUT", "\"next\"">> >>

\* the selectors of the CASE programs of the catalogue
CaseSelectors == 1..4

CasePrograms ==
    [k \in 1..(2 * Cardinality(CaseSelectors)) |-> CaseProgram(((k - 1) \div 2) + 1, k % 2 = 1)]

\* the operands of the additions of the catalogue: the lexeme of a literal,
\* whether it is a string, its text and (for a number) its value
PlusOperands ==
    << [lexeme |-> "1", string |-> FALSE, text |-> "1", number |-> 1],
       [lexeme |-> "12", string |-> FALSE, text |-> "12", number |-> 12],
       [lexeme |-> "\"a\"", string |-> TRUE, text |-> "a", number |-> 0],
       [lexeme |-> "\"7\"", string |-> TRUE, text |-> "7", number |-> 0] >>

\* the output of the sum of two operands
PlusProgram(left, right) ==
    << <<"OUTPUT", PlusOperands[left].lexeme, "+", PlusOperands[right].lexeme>> >>

PlusPrograms ==
    [k \in 1..(Len(PlusOperands) * Len(PlusOperands)) |->
        PlusProgram(((k - 1) \div Len(PlusOperands)) + 1, ((k - 1) % Len(PlusOperands)) + 1)]

\* the program of the test 'should handle string operations'; `operator` is
\* the concatenation operator, & in the test
StringProgram(operator) ==
    << <<"DECLARE", "str1", ":", "STRING">>,
       <<"DECLARE", "str2", ":", "STRING">>,
       <<"DECLARE", "result", ":", "STRING">>,
       <<"str1", "<-", "\"Hello\"">>,
       <<"str2", "<-", "\"World\"">>,
       <<"result", "<-", "str1", operator, "\" \"", operator, "str2">>,
       <<"OUTPUT", "result">>,
       <<"OUTPUT", "LENGTH", "(", "result", ")">> >>

\* a file opened and closed inside a procedure while another file is open
NestedFileProgram ==
    << <<"PROCEDURE", "P", "(", ")">>,
       <<"OPENFILE", "\"g\"", "FOR", "k">>,
       <<"CLOSEFILE", "k">>,
       <<"ENDPROCEDURE">>,
       <<"OPENFILE", "\"f\"", "FOR", "h">>,
       <<"CALL", "P", "(", ")">>,
       <<"CLOSEFILE", "h">> >>

\* the file that the programs of the catalogue open for each identifier
OpenedFor == ("h" :> "f") @@ ("k" :> "g")

\* a statement with a comment after it on its line, and a statement after it
CommentProgram ==
    << <<"OUTPUT", "1", "//", "one">>,
       <<"OUTPUT", "2">> >>

\* CommentProgram without its comment
CommentProgramBare ==
    << <<"OUTPUT", "1">>,
       <<"OUTPUT", "2">> >>

\* the binary operators the lexer has a token for, those of logicalOr() first
BinaryOperators == <<"OR", "AND", "=", "<>", "<", ">", "<=", ">=", "+", "-", "*", "/">>

\* the assignment of an expression of two binary operators (test 'should
\* parse binary expressions', over every pair of operators)
PrecedenceProgram(first, second) ==
    << <<"x", "<-", "a", BinaryOperators[first], "b", BinaryOperators[second], "c">> >>

PrecedencePrograms ==
    [k \in 1..(Len(BinaryOperators) * Len(BinaryOperators)) |->
        PrecedenceProgram(((k - 1) \div Len(BinaryOperators)) + 1,
                          ((k - 1) % Len(BinaryOperators)) + 1)]

\* the program of the test 'should parse logical expressions'
LogicalProgram == << <<"x", "<-", "a", "AND", "b", "OR", "NOT", "c">> >>

\* a second declaration of a name in the scope of the first
RedeclareProgram ==
    << <<"DECLARE", "x", ":", "INTEGER">>,
       <<"x", "<-", "3">>,
       <<"DECLARE", "x", ":", "STRING">>,
       <<"OUTPUT", "x">> >>

\* a routine that declares a name its caller's scope has declared
ShadowProgram ==
    << <<"DECLARE", "x", ":", "INTEGER">>,
       <<"x", "<-", "3">>,
       <<"PROCEDURE", "A", "(", ")">>,
       <<"DECLARE", "x", ":", "STRING">>,
       <<"x", "<-", "\"a\"">>,
       <<"OUTPUT", "x">>,
       <<"ENDPROCEDURE">>,
       <<"CALL", "A", "(", ")">>,
       <<"OUTPUT", "x">> >>

\* a routine that assigns to a name that only the enclosing scope declares
OuterAssignProgram ==
    << <<"DECLARE", "x", ":", "INTEGER">>,
       <<"PROCEDURE", "A", "(", ")">>,
       <<"DECLARE", "y", ":", "INTEGER">>,
       <<"x", "<-", "5">>,
       <<"OUTPUT", "x">>,
       <<"ENDPROCEDURE">>,
       <<"CALL", "A", "(", ")">>,
       <<"OUTPUT", "x">> >>

\* the uses of a name that no scope declares: read (test 'should handle
\* undefined variables'), assignment and input
UndefinedUses ==
    << <<"OUTPUT", "undefinedVariable">>,
       <<"undefinedVariable", "<-", "1">>,
       <<"INPUT", "undefinedVariable">> >>

UndefinedProgram(use) == << <<"OUTPUT", "1">>, UndefinedUses[use] >>

UndefinedPrograms == [use \in DOMAIN UndefinedUses |-> UndefinedProgram(use)]

\* a CLOSEFILE of an identifier that no OPENFILE has bound
CloseUnopenedProgram ==
    << <<"OUTPUT", "1">>,
       <<"CLOSEFILE", "h">> >>

\* a second CLOSEFILE of an identifier
CloseTwiceProgram ==
    << <<"OPENFILE", "\"f\"", "FOR", "h">>,
       <<"CLOSEFILE", "h">>,
       <<"OUTPUT", "1">>,
       <<"CLOSEFILE", "h">> >>

\* the primitive types a DECLARE can name
PrimitiveTypes == <<"INTEGER", "REAL", "CHAR", "STRING", "BOOLEAN", "DATE">>

\* the declaration of a variable of a primitive type, and a statement after it
DeclareProgram(type) ==
    << <<"DECLARE", "v", ":", PrimitiveTypes[type]>>,
       <<"OUTPUT", "1">> >>

DeclarePrograms == [type \in DOMAIN PrimitiveTypes |-> DeclareProgram(type)]

\* the empty source (test 'should handle empty input')
EmptyProgram == <<>>

\* the keyword EOF and an identifier spelt like the type of the last token
EofProgram == << <<"OUTPUT", "EOF">>, <<"OUTPUT", "EOF_TOKEN">> >>

Programs ==
    <<EmptyProgram, EofProgram, RedeclareProgram, ShadowProgram, OuterAssignProgram,
      CloseUnopenedProgram, CloseTwiceProgram, LogicalProgram,
      LoopProgram, FactorialTest,
      FactorialReturns, ArrayProgram, ArgumentsProgram, ScopeProgram, ParameterProgram, ReturnProgram, CharacterProgram, EndifProgram,
      ConstantProgram, InputProgram, FileProgram, ArrayBoundsProgram, TypeProgram,
      DivModProgram, ZeroDivisionProgram("/"), ZeroDivisionProgram("DIV"),
      ZeroDivisionProgram("MOD"), StringProgram("&"), StringProgram("+"),
      NestedFileProgram, CommentProgram, CommentProgramBare>>
    \o ForPrograms \o CasePrograms \o PlusPrograms \o PrecedencePrograms
    \o UndefinedPrograms \o DeclarePrograms

\* the programs of the executions that overlap
InterleavedPrograms == {p \in DOMAIN Programs : Programs[p] \in {InputProgram, FileProgram}}

\* the values the user may type
Inputs == {"2", "a"}

Executions == 1..MaxExecutions

\* line.trim().startsWith('//') === false && !!line.trim()
keptLine(line) == line # <<>> /\ ~(Len(line) >= 2 /\ line[1] = "/" /\ line[2] = "/")

\* lines.join('\n')
RECURSIVE joinNewline(_)
joinNewline(lines) ==
    IF Len(lines) = 0 THEN <<>>
    ELSE IF Len(lines) = 1 THEN lines[1]
    ELSE lines[1] \o <<"\n">> \o joinNewline(Tail(lines))

\* sourceCode.trim().split('\n').filter(...).join('\n').trim()
joinLines(lines) == joinNewline(SelectSeq(lines, keptLine))

VARIABLES
    executionSteps,  \* Interpreter.executionSteps
    options,         \* Interpreter.options
    io,              \* the I/O collaborator
    envs,            \* every Environment constructed
    contexts,        \* every ExecutionContext constructed
    objects,         \* the number of JavaScript objects allocated
    evaluators,      \* the Evaluator of each execute call
    tasks,           \* the pending promises of each execute call
    results,         \* the ExecutionResult of each execute call
    nodesEvaluated   \* the number of evaluate() calls of each execute call

vars == <<executionSteps, options, io, envs, contexts, objects, evaluators, tasks, results,
          nodesEvaluated>>

\* an Evaluator on the first global environment that was constructed, in place
\* of an Environment of its own
SharedEvaluator(id, environment, context) ==
    [id |-> id, environment |-> IF environment = 0 THEN 0 ELSE 2, context |-> context,
     globalRoutines |-> BuiltInRoutines, calls |-> 0]

\* the Evaluator constructor: this.environment = new Environment(), this.context =
\* new ExecutionContext(this.environment); 0 before the evaluator exists
Evaluator(id, environment, context) ==
    [id |-> id, environment |-> environment, context |-> context,
     globalRoutines |-> BuiltInRoutines, calls |-> 0]

NoResult == [state |-> "idle", program |-> 0, success |-> FALSE, error |-> NoError,
             output |-> Undefined, steps |-> 0]

Init ==
    /\ executionSteps = 0
    /\ options = [debug |-> FALSE, maxExecutionSteps |-> 10, strictTypeChecking |-> TRUE]
    /\ io = [outputBuffer |-> <<>>, errors |-> <<>>, randomFiles |-> EmptyMap,
             writtenFiles |-> EmptyMap, nextFileHandle |-> 1]
    /\ envs = <<>>
    /\ contexts = <<>>
    /\ objects = 0
    /\ evaluators = [e \in Executions |-> Evaluator(e, 0, 0)]
    /\ tasks = [e \in Executions |-> <<>>]
    /\ results = [e \in Executions |-> NoResult]
    /\ nodesEvaluated = [e \in Executions |-> 0]

\* ErrorHandler.error(message) and MockIO.error
error(o, message) ==
    [output(o, "Error: Error: " \o message) EXCEPT !.errors = Append(@, "Error: " \o message)]

\* a catch block for PseudocodeErrors only: any other error leaves execute as
\* an exception
catchPseudocodeError(thrown) ==
    IF IsPseudocodeError(thrown)
    THEN [io |-> error(io, thrown.message),
          result |-> [state |-> "returned", program |-> 0, success |-> FALSE,
                      error |-> thrown, output |-> Undefined, steps |-> 0]]
    ELSE [io |-> io,
          result |-> [state |-> "threw", program |-> 0, success |-> FALSE,
                      error |-> thrown, output |-> Undefined, steps |-> 0]]

\* the catch block of execute
catch(thrown) ==
    LET pseudocodeError == IF IsPseudocodeError(thrown) THEN thrown
                           ELSE Err("PseudocodeError", thrown.message)
    IN [io |-> error(io, pseudocodeError.message),
        result |-> [state |-> "returned", program |-> 0, success |-> FALSE,
                    error |-> pseudocodeError, output |-> Undefined, steps |-> 0]]

\* execute(sourceCode), up to the suspension at `await evaluator.evaluateProgram(ast)`
Execute(e, p) ==
    LET environment == Len(envs) + 1
        failed(caught) ==
            /\ io' = caught.io
            /\ results' = [results EXCEPT ![e] = [caught.result EXCEPT !.program = p]]
            /\ UNCHANGED <<envs, contexts, evaluators, tasks>>
        started(ast) ==
            /\ envs' = envs \o <<NewEnvironment(0, e), NewEnvironment(0, e)>>
            /\ contexts' = contexts \o <<NewExecutionContext(environment),
                                         NewExecutionContext(environment + 1)>>
            \* new Evaluator(globalEnvironment, io), then evaluator.context = context
            /\ evaluators' = [evaluators EXCEPT ![e] =
                                 [Evaluator(e, environment + 1, Len(contexts) + 2)
                                     EXCEPT !.context = Len(contexts) + 1]]
            /\ tasks' = [tasks EXCEPT ![e] = <<Task(<<Frame(ast, FALSE)>>, 0, 0)>>]
            /\ results' = [results EXCEPT ![e].state = "running", ![e].program = p]
            /\ io' = io
        parsed(r) == IF r.error # NoError THEN failed(catch(r.error)) ELSE started(r.ast)
        tokenized(lexed) ==
            IF lexed.error # NoError THEN failed(catch(lexed.error))
            ELSE parsed(parse(lexed.tokens))
    IN /\ results[e].state = "idle"
       /\ \A d \in 1..(e - 1) : results[d].state # "idle"
       /\ executionSteps' = 0
       /\ tokenized(tokenize(joinLines(Programs[p])))
       /\ UNCHANGED <<options, objects, nodesEvaluated>>

\* one run of a pending evaluate method, from its position to its next await
Evaluate(e, t) ==
    LET run(o) ==
            /\ envs' = o.w.envs
            /\ contexts' = o.w.contexts
            /\ objects' = o.w.objects
            /\ evaluators' = [evaluators EXCEPT ![e] = o.w.ev]
            /\ io' = o.w.io
            /\ tasks' = [tasks EXCEPT ![e] = settle(@, t, o)]
            /\ nodesEvaluated' = [nodesEvaluated EXCEPT ![e] = @ + Len(o.nodes)]
    IN /\ tasks[e][t].status = "ready"
       /\ nodesEvaluated[e] < MaxNodes
       /\ run(evaluate([envs |-> envs, contexts |-> contexts, objects |-> objects,
                        ev |-> evaluators[e], io |-> io], Last(tasks[e][t].stack)))
       /\ UNCHANGED <<executionSteps, options, results>>

\* the user answers an INPUT
IoInput(e, t, input) ==
    /\ tasks[e][t].status = "input"
    /\ tasks' = [tasks EXCEPT ![e][t].status = "ready",
                              ![e][t].stack[Len(tasks[e][t].stack)].vals =
                                    Append(@, Str(input))]
    /\ UNCHANGED <<executionSteps, options, io, envs, contexts, objects, evaluators,
                   results, nodesEvaluated>>

\* execute after `await evaluator.evaluateProgram(ast)` resolved
ExecuteReturn(e) ==
    /\ results[e].state = "running"
    /\ tasks[e][1].status = "done"
    /\ results' = [results EXCEPT ![e].state = "returned", ![e].success = TRUE,
                                  ![e].output = IF tasks[e][1].value = Undefined
                                                THEN Undefined
                                                ELSE Str(jsString(tasks[e][1].value)),
                                  ![e].steps = executionSteps]
    /\ UNCHANGED <<executionSteps, options, io, envs, contexts, objects, evaluators, tasks,
                   nodesEvaluated>>

\* execute after `await evaluator.evaluateProgram(ast)` rejected
ExecuteCatch(e) ==
    /\ results[e].state = "running"
    /\ tasks[e][1].status = "failed"
    /\ io' = catch(tasks[e][1].error).io
    /\ results' = [results EXCEPT ![e] = [catch(tasks[e][1].error).result
                                            EXCEPT !.program = results[e].program,
                                                   !.steps = executionSteps]]
    /\ UNCHANGED <<executionSteps, options, envs, contexts, objects, evaluators, tasks,
                   nodesEvaluated>>

\* one call of execute
Next ==
    \/ \E p \in DOMAIN Programs : Execute(1, p)
    \/ \E e \in Executions : \E t \in 1..Len(tasks[e]) : Evaluate(e, t)
    \/ \E e \in Executions : \E t \in 1..Len(tasks[e]) : \E input \in Inputs :
            IoInput(e, t, input)
    \/ \E e \in Executions : ExecuteReturn(e)
    \/ \E e \in Executions : ExecuteCatch(e)

Spec == Init /\ [][Next]_vars

\* calls of execute on one Interpreter that the caller does not await in turn
NextInterleaved ==
    \/ \E e \in Executions, p \in InterleavedPrograms : Execute(e, p)
    \/ \E e \in Executions : \E t \in 1..Len(tasks[e]) : Evaluate(e, t)
    \/ \E e \in Executions : \E t \in 1..Len(tasks[e]) : \E input \in Inputs :
            IoInput(e, t, input)
    \/ \E e \in Executions : ExecuteReturn(e)
    \/ \E e \in Executions : ExecuteCatch(e)

SpecInterleaved == Init /\ [][NextInterleaved]_vars

(***************************************************************************)
(* Properties.                                                             *)
(***************************************************************************)
\* the execute call e has returned its ExecutionResult
Returned(e) == results[e].state = "returned"

\* the source code given to the execute call e
SourceOf(e) == IF results[e].program = 0 THEN <<>> ELSE Programs[results[e].program]

\* C1: an execution that evaluates more nodes than options.maxExecutionSteps
\* is stopped by the node that exceeds the maximum, and its result is
\* unsuccessful
C1_StepGuardStopsExecution ==
    \A e \in Executions :
        /\ nodesEvaluated[e] <= options.maxExecutionSteps + 1
        /\ Returned(e) /\ nodesEvaluated[e] > options.maxExecutionSteps
                => ~results[e].success

\* C2: execute never throws; an error raised while lexing, parsing or
\* evaluating comes back as a result with success = false that carries the
\* error as a PseudocodeError, and its message is in the errors the I/O
\* collaborator was given
C2_ExecuteNeverThrows ==
    \A e \in Executions :
        /\ results[e].state \in {"idle", "running", "returned"}
        /\ Returned(e) /\ (tasks[e] = <<>> \/ tasks[e][1].status = "failed") =>
                /\ ~results[e].success
                /\ IsPseudocodeError(results[e].error)
                /\ \E i \in DOMAIN io.errors :
                        io.errors[i] = "Error: " \o results[e].error.message
        /\ Returned(e) /\ tasks[e] # <<>> /\ tasks[e][1].status = "failed" =>
                results[e].error.message = tasks[e][1].error.message

\* an execution whose evaluation threw an error that is no PseudocodeError
\* has returned it
C2_Witness ==
    \E e \in Executions :
        /\ Returned(e) /\ tasks[e] # <<>> /\ tasks[e][1].status = "failed"
        /\ ~IsPseudocodeError(tasks[e][1].error)
        /\ results[e].error.class = "PseudocodeError"

\* the evaluation of the program of the execute call e has failed
Failed(e) == tasks[e] # <<>> /\ tasks[e][1].status = "failed"

\* C3: once a statement has failed the execution goes no further: what was
\* output stays output, no node is evaluated and no output, input or file
\* call is made for the program any more
C3_NothingRunsAfterFailure ==
    [][\A e \in Executions :
            /\ Len(io'.outputBuffer) >= Len(io.outputBuffer)
            /\ SubSeq(io'.outputBuffer, 1, Len(io.outputBuffer)) = io.outputBuffer
            /\ Failed(e) => /\ evaluators'[e].calls = evaluators[e].calls
                            /\ nodesEvaluated'[e] = nodesEvaluated[e]]_vars

\* C4: a routine body runs in a child of the environment the routine was
\* defined in.  Every routine of the programs is declared at the top level,
\* so every environment made for a call is a child of an environment without
\* a parent, and the routine B of ScopeProgram, which names the variable x
\* of its caller A, fails with an undefined-name RuntimeError
C4_LexicalScoping ==
    /\ \A i \in DOMAIN envs : envs[i].parent # 0 => envs[envs[i].parent].parent = 0
    /\ \A e \in Executions :
            Returned(e) /\ SourceOf(e) = ScopeProgram
                => /\ ~results[e].success
                   /\ results[e].error = RuntimeError("Undefined variable 'x'")

\* the environments without a parent that the execute call e constructed
GlobalEnvironments(e) == {i \in DOMAIN envs : envs[i].createdBy = e /\ envs[i].parent = 0}

\* C5: a parameter is a copy, so what a callee assigns to its parameter
\* changes no variable of its caller.  The only assignments of
\* ParameterProgram are those of G to its parameter a, so the variable a that
\* the program declares keeps the value 0 its declaration gave it
C5_ParametersAreCopies ==
    \A e \in Executions :
        SourceOf(e) = ParameterProgram =>
            \A i \in GlobalEnvironments(e) :
                "a" \in DOMAIN envs[i].variables => envs[i].variables["a"].value = Num(0)

\* the frames of the execute call e that are running the body of a routine
RoutineFrames(e) ==
    {f \in UNION {{tasks[e][t].stack[k] : k \in DOMAIN tasks[e][t].stack} :
                        t \in DOMAIN tasks[e]} :
        f.node.type \in {"CallExpression", "CallStatement"} /\ f.pc = 2}

\* C6: a RETURN ends the invocation it runs in and the caller carries on: no
\* invocation has started a statement of its body that comes after a RETURN
\* of that body, and ReturnProgram, whose function G has an OUTPUT after its
\* RETURN, ends successfully without that output
C6_ReturnEndsInvocation ==
    \A e \in Executions :
        /\ \A f \in RoutineFrames(e) :
                \A j \in 1..(f.idx - 1) :
                    evaluators[e].globalRoutines[f.node.name].body[j].type # "Return"
        /\ Returned(e) /\ SourceOf(e) = ReturnProgram
                => results[e].success /\ io.outputBuffer = <<>>

\* C7: the recursive Factorial of the test, called with 5, returns 120: the
\* execution of FactorialTest ends successfully and its output is 120
C7_FactorialOfFive ==
    \A e \in Executions :
        Returned(e) /\ SourceOf(e) = FactorialTest
            => results[e].success /\ io.outputBuffer = <<"120\n">>

\* the Environments and the ExecutionContexts that the execute call e constructed
EnvironmentsOf(e) == {i \in DOMAIN envs : envs[i].createdBy = e}

ContextsOf(e) == {c \in DOMAIN contexts : contexts[c].environment \in EnvironmentsOf(e)}

\* the mutable state of the execute call e: its Evaluator, its pending
\* promises, its result, and its environments (variables, routines and
\* file-handle bindings) and contexts
Owned(e) ==
    <<evaluators[e], tasks[e], results[e], nodesEvaluated[e],
      [i \in EnvironmentsOf(e) |-> envs[i]], [c \in ContextsOf(e) |-> contexts[c]]>>

\* every environment and context that the Evaluator of e can reach was
\* constructed by e
Isolated(e) ==
    /\ evaluators[e].environment # 0 =>
            /\ evaluators[e].environment \in EnvironmentsOf(e)
            /\ evaluators[e].context \in ContextsOf(e)
    /\ \A i \in EnvironmentsOf(e) : envs[i].parent # 0 => envs[i].parent \in EnvironmentsOf(e)
    /\ \A c \in ContextsOf(e) :
            \A k \in DOMAIN contexts[c].callStack :
                contexts[c].callStack[k].environment \in EnvironmentsOf(e)

IllFormedPrograms == {CharacterProgram, EndifProgram, ConstantProgram}

\* nothing of the program of the execute call e has been evaluated
NothingEvaluated(e) ==
    /\ tasks[e] = <<>>
    /\ nodesEvaluated[e] = 0
    /\ evaluators[e].calls = 0
    /\ \A i \in DOMAIN io.outputBuffer : io.outputBuffer[i] # "1\n"

C10_ConstantIsNotAssignable ==
    \A e \in Executions :
        Returned(e) /\ SourceOf(e) = ConstantProgram =>
            /\ ~results[e].success
            /\ results[e].error.class = "RuntimeError"
            /\ \E i \in GlobalEnvironments(e) :
                    /\ "PI" \in DOMAIN envs[i].variables
                    /\ envs[i].variables["PI"].value = parseFloat("3.14")

\* C11: an element inside the declared bounds is written and read without an
\* error: the execution of ArrayBoundsProgram (ARRAY[1:3], element 2) ends
\* successfully having output the value it stored
C11_AccessInsideBoundsSucceeds ==
    \A e \in Executions :
        Returned(e) /\ SourceOf(e) = ArrayBoundsProgram
            => results[e].success /\ io.outputBuffer = <<"5\n">>

\* the messages of the errors that validateValue raises for a primitive type
ValidationMessages ==
    {"Expected " \o type \o ", got " \o got :
        type \in {"INTEGER", "REAL", "CHAR (single character)", "STRING", "BOOLEAN", "DATE"},
        got \in {"number", "string", "boolean", "undefined", "object"}}

\* the task t of the execute call e fails in this step with a validation error
ValidationFails(e, t) ==
    /\ t \in DOMAIN tasks[e] /\ tasks[e][t].status # "failed"
    /\ t \in DOMAIN tasks'[e] /\ tasks'[e][t].status = "failed"
    /\ tasks'[e][t].error.class = "RuntimeError"
    /\ tasks'[e][t].error.message \in ValidationMessages

DivModOperands == << <<7, 2>>, <<-7, 2>>, <<7, -2>>, <<-7, -2>> >>

\* floor(a / b) for b # 0
FloorOfQuotient(a, b) == IF b > 0 THEN a \div b ELSE (-a) \div (-b)

\* a - b * floor(a / b)
FlooredModulus(a, b) == a - b * FloorOfQuotient(a, b)

\* C13: a DIV b is floor(a/b) and a MOD b is a - b*floor(a/b), whatever the
\* signs of a and b: DivModProgram ends successfully and its outputs are these
\* values for each of its operand pairs, in order
C13_DivAndModAreFloored ==
    \A e \in Executions :
        Returned(e) /\ SourceOf(e) = DivModProgram =>
            /\ results[e].success
            /\ io.outputBuffer =
                  [k \in 1..(2 * Len(DivModOperands)) |->
                      LET pair == DivModOperands[(k + 1) \div 2]
                      IN jsString(Num(IF k % 2 = 1
                                      THEN FloorOfQuotient(pair[1], pair[2])
                                      ELSE FlooredModulus(pair[1], pair[2]))) \o "\n"]

\* C14: a division by zero with /, DIV or MOD ends the execution with an
\* unsuccessful result whose error is the Division-by-zero error
C14_DivisionByZeroIsRaised ==
    \A e \in Executions : \A operator \in DivisionOperators :
        Returned(e) /\ SourceOf(e) = ZeroDivisionProgram(operator) =>
            /\ ~results[e].success
            /\ results[e].error = Err("DivisionByZeroError", "Division by zero")

\* the values a, a+s, a+2s, ... up to b (s > 0) or down to b (s < 0)
ForValues(a, b, s) ==
    LET count == CASE s > 0 /\ a <= b -> ((b - a) \div s) + 1
                   [] s < 0 /\ a >= b -> ((a - b) \div (-s)) + 1
                   [] OTHER -> 0
    IN [k \in 1..count |-> a + (k - 1) * s]

\* C15: FOR i <- a TO b STEP s, with a body that outputs i, ends successfully
\* having output exactly the values a, a+s, a+2s, ... that do not pass b, in
\* that order; without STEP the step is 1
C15_ForVisitsEachValueInOrder ==
    \A e \in Executions : \A a, b \in 1..MaxFor : \A k \in DOMAIN ForSteps :
        Returned(e) /\ SourceOf(e) = ForProgram(a, b, ForSteps[k]) =>
            /\ results[e].success
            /\ io.outputBuffer =
                  [j \in DOMAIN ForValues(a, b, IF ForSteps[k] = 0 THEN 1 ELSE ForSteps[k]) |->
                      jsString(Num(ForValues(a, b, IF ForSteps[k] = 0 THEN 1
                                                   ELSE ForSteps[k])[j])) \o "\n"]

\* FOR i <- 5 TO 1 STEP -1 has ended with the output 5, 4, 3, 2, 1
C15_Witness ==
    \E e \in Executions :
        /\ Returned(e) /\ results[e].success
        /\ SourceOf(e) = ForProgram(5, 1, -1)
        /\ io.outputBuffer = <<"5\n", "4\n", "3\n", "2\n", "1\n">>

\* what the branches of CaseProgram output for a selector
CaseOutput(selector, otherwise) ==
    CASE selector = 1 -> <<"one\n">>
      [] selector \in 2..3 -> <<"range\n">>
      [] otherwise -> <<"other\n">>
      [] OTHER -> <<>>

\* C16: a CASE runs the body of the first label that matches the selector and
\* no other, OTHERWISE only when no label matches, and nothing when there is
\* neither; the statement after ENDCASE runs in every case: each CaseProgram
\* ends successfully with the output of that one branch followed by "next"
C16_CaseRunsFirstMatchingBranch ==
    \A e \in Executions : \A selector \in CaseSelectors : \A otherwise \in BOOLEAN :
        Returned(e) /\ SourceOf(e) = CaseProgram(selector, otherwise) =>
            /\ results[e].success
            /\ io.outputBuffer = CaseOutput(selector, otherwise) \o <<"next\n">>

C18_AmpersandConcatenates ==
    \A e \in Executions :
        Returned(e) /\ SourceOf(e) = StringProgram("&")
            => results[e].success /\ io.outputBuffer = <<"Hello World\n", "11\n">>

\* C19: the handle bound to a file-handle identifier is the one the I/O
\* collaborator returned for the identifier's file, and CLOSEFILE closes that
\* handle: a bound handle that the collaborator has open is open for the
\* identifier's own file, and a program that closes every file it opened ends
\* with no file open at the collaborator
C19_BoundHandleIsTheCollaborators ==
    /\ \A i \in DOMAIN envs : \A name \in DOMAIN envs[i].fileHandles :
            envs[i].fileHandles[name] \in DOMAIN io.randomFiles
                => io.randomFiles[envs[i].fileHandles[name]] = OpenedFor[name]
    /\ \A e \in Executions :
            Returned(e) /\ SourceOf(e) \in {FileProgram, NestedFileProgram}
                => results[e].success /\ io.randomFiles = EmptyMap

\* C20: a // comment adds no token and no error and changes no other token:
\* the program with a comment after its first statement has the token
\* sequence of the program without it, and its execution ends successfully
\* with the same output
C20_CommentsAreSkipped ==
    \A e \in Executions :
        Returned(e) /\ SourceOf(e) = CommentProgram =>
            /\ tokenize(joinLines(CommentProgram)) = tokenize(joinLines(CommentProgramBare))
            /\ results[e].success
            /\ io.outputBuffer = <<"1\n", "2\n">>

\* the Program node Interpreter.execute hands to the evaluator for the source
\* of the execute call e
AstOf(e) == parse(tokenize(joinLines(SourceOf(e))).tokens).ast

\* how tightly a binary operator binds: 1 for OR, the loosest, to 6 for the
\* multiplicative operators
Precedence(operator) ==
    CASE operator = "OR" -> 1
      [] operator = "AND" -> 2
      [] operator \in {"=", "<>"} -> 3
      [] operator \in {"<", ">", "<=", ">="} -> 4
      [] operator \in {"+", "-"} -> 5
      [] operator \in {"*", "/"} -> 6

\* a op1 b op2 c as the precedence order and left associativity group it
Grouped(op1, op2) ==
    IF Precedence(op2) > Precedence(op1)
    THEN BinaryExpression(op1, Identifier("a"), BinaryExpression(op2, Identifier("b"), Identifier("c")))
    ELSE BinaryExpression(op2, BinaryExpression(op1, Identifier("a"), Identifier("b")), Identifier("c"))

\* C21: an expression of two binary operators is grouped by the precedence
\* order OR, AND, equality, comparison, additive, multiplicative (loosest
\* first) and, on one level, to the left; a unary operator binds tighter than
\* every binary one, so a AND b OR NOT c has OR at its root, over a AND b and
\* NOT c
C21_PrecedenceAndLeftAssociativity ==
    \A e \in Executions :
        results[e].state # "idle" =>
            /\ \A first, second \in DOMAIN BinaryOperators :
                    SourceOf(e) = PrecedenceProgram(first, second)
                        => AstOf(e).body[1].value
                            = Grouped(BinaryOperators[first], BinaryOperators[second])
            /\ SourceOf(e) = LogicalProgram
                    => AstOf(e).body[1].value
                        = BinaryExpression("OR",
                              BinaryExpression("AND", Identifier("a"), Identifier("b")),
                              [type |-> "UnaryExpression", operator |-> "NOT",
                               operand |-> Identifier("c")])

\* a + b * c has been parsed and handed to the evaluator as a + (b * c)
C21_Witness ==
    \E e \in Executions :
        /\ SourceOf(e) = PrecedenceProgram(9, 11)
        /\ tasks[e] # <<>>
        /\ tasks[e][1].stack # <<>>
        /\ tasks[e][1].stack[1].node.type = "Program"
        /\ tasks[e][1].stack[1].node.body[1].value
            = BinaryExpression("+", Identifier("a"),
                               BinaryExpression("*", Identifier("b"), Identifier("c")))

\* what Lexer.tokenize returns for the source of the execute call e
TokensOf(e) == tokenize(joinLines(SourceOf(e)))

Fresh(task) ==
    /\ task.status = "ready"
    /\ Len(task.stack) = 1
    /\ task.stack[1] = Frame(task.stack[1].node, FALSE)

\* the evaluation of an argument that has finished, with a value or an error
Finished(task) == task.status \in {"done", "failed"}

\* C23: the arguments of a call are evaluated one after the other: the
\* evaluations of two arguments of one call are never both in progress, each
\* started and neither finished
C23_ArgumentsEvaluateInTurn ==
    \A e \in Executions : \A i, j \in DOMAIN tasks[e] :
        /\ tasks[e][i].parent # 0
        /\ tasks[e][i].parent = tasks[e][j].parent
        /\ tasks[e][i].slot < tasks[e][j].slot
        /\ ~Fresh(tasks[e][i])
        /\ ~Fresh(tasks[e][j])
        => Finished(tasks[e][i]) \/ Finished(tasks[e][j])

\* the calls of the execute call e that have pushed their frame and not yet
\* returned, each by the place of its evaluateCallExpression in the tasks
CallsInProgress(e) ==
    {p \in UNION {{<<t, k>> : k \in DOMAIN tasks[e][t].stack} : t \in DOMAIN tasks[e]} :
        /\ tasks[e][p[1]].stack[p[2]].node.type \in {"CallExpression", "CallStatement"}
        /\ tasks[e][p[1]].stack[p[2]].pc = 2}

\* the call frames on the call stacks of the contexts of the execute call e
CallFrames(e) ==
    UNION {{<<c, k>> : k \in DOMAIN contexts[c].callStack} : c \in ContextsOf(e)}

\* the context and the environment the Evaluator of e is given for the
\* statements of the program itself
ProgramContext(e) == CHOOSE c \in ContextsOf(e) : \A d \in ContextsOf(e) : c <= d

ProgramEnvironment(e) ==
    CHOOSE i \in GlobalEnvironments(e) : \A j \in GlobalEnvironments(e) : j <= i

\* C24: while an execution runs, the call stacks hold one frame for each call
\* that has not returned, and once every call has returned the active context
\* and environment are again those of the program and no frame is left
C24_CallFramesAreLIFO ==
    \A e \in Executions :
        results[e].state = "running" /\ ~Failed(e) =>
            /\ Cardinality(CallFrames(e)) = Cardinality(CallsInProgress(e))
            /\ CallsInProgress(e) = {} =>
                    /\ evaluators[e].context = ProgramContext(e)
                    /\ evaluators[e].environment = ProgramEnvironment(e)

\* node is a call of a routine that e has declared as a FUNCTION
IsFunctionCall(e, node) ==
    /\ node.type = "CallExpression"
    /\ node.name \in DOMAIN evaluators[e].globalRoutines
    /\ evaluators[e].globalRoutines[node.name].type = "FunctionDeclaration"

\* the frames of the execute call e
FramesOf(e) ==
    UNION {{tasks[e][t].stack[k] : k \in DOMAIN tasks[e][t].stack} : t \in DOMAIN tasks[e]}

\* C25: the call of a FUNCTION yields the value its RETURNS stored: when the
\* arguments of a call have been evaluated, every argument that is the call
\* of a FUNCTION (each FUNCTION of the catalogue runs a RETURNS of a value)
\* has given a value
C25_FunctionCallYieldsStoredValue ==
    \A e \in Executions : \A f \in FramesOf(e) :
        /\ f.node.type \in {"CallExpression", "CallStatement"}
        /\ f.pc = 1
        /\ Len(f.vals) = Len(f.node.arguments)
        => \A i \in DOMAIN f.vals :
                IsFunctionCall(e, f.node.arguments[i]) => f.vals[i] # Undefined

\* the binding of x in the scope of the program of e, once declared there
DeclaredX(e) == envs[ProgramEnvironment(e)].variables["x"]

\* C26: a scope binds a name at most once.  A binding keeps its type and its
\* constancy for good; the second DECLARE of x in one scope fails with a
\* RuntimeError and the INTEGER x keeps its value 3; a DECLARE of x in the
\* scope of a routine succeeds, and the routine's assignment to its STRING x
\* leaves the INTEGER x of the enclosing scope at 3
C26_DefineOncePerScope ==
    /\ [][\A i \in DOMAIN envs : \A name \in DOMAIN envs[i].variables :
            /\ name \in DOMAIN envs'[i].variables
            /\ envs'[i].variables[name].type = envs[i].variables[name].type
            /\ envs'[i].variables[name].isConstant = envs[i].variables[name].isConstant]_vars
    /\ [](\A e \in Executions :
            /\ Returned(e) /\ SourceOf(e) = RedeclareProgram =>
                /\ ~results[e].success
                /\ results[e].error
                    = RuntimeError("Variable 'x' already declared in this scope")
                /\ DeclaredX(e) = [type |-> PrimitiveType("INTEGER"), value |-> Num(3),
                                   isConstant |-> FALSE]
            /\ Returned(e) /\ SourceOf(e) = ShadowProgram =>
                /\ results[e].success
                /\ io.outputBuffer = <<"a\n", "3\n">>
                /\ DeclaredX(e).value = Num(3))

\* the routine of ShadowProgram has declared its own x and assigned to it,
\* under the x of the program
C26_Witness ==
    \E e \in Executions : \E i \in EnvironmentsOf(e) :
        /\ SourceOf(e) = ShadowProgram
        /\ envs[i].parent = ProgramEnvironment(e)
        /\ "x" \in DOMAIN envs[i].variables
        /\ envs[i].variables["x"].value = Str("a")
        /\ DeclaredX(e).value = Num(3)

\* the scopes of the routines that the program of e has called
RoutineScopes(e) == {i \in EnvironmentsOf(e) : envs[i].parent = ProgramEnvironment(e)}

\* C27: a name resolves to the nearest enclosing scope that defines it.  The
\* routine of OuterAssignProgram assigns 5 to the x of the enclosing scope:
\* its own scope never binds x, it reads 5 back and so does the program after
\* the call; the routine of ShadowProgram reads its own x, not the outer one;
\* reading, assigning or inputting a name that no scope defines ends the
\* execution with RuntimeError "Undefined variable", the name still unbound
C27_NamesResolveToNearestScope ==
    \A e \in Executions :
        /\ SourceOf(e) = OuterAssignProgram =>
            /\ \A i \in RoutineScopes(e) : "x" \notin DOMAIN envs[i].variables
            /\ Returned(e) =>
                /\ results[e].success
                /\ io.outputBuffer = <<"5\n", "5\n">>
                /\ DeclaredX(e).value = Num(5)
        /\ SourceOf(e) = ShadowProgram /\ io.outputBuffer # <<>>
            => io.outputBuffer[1] = "a\n"
        /\ \A use \in DOMAIN UndefinedUses :
            Returned(e) /\ SourceOf(e) = UndefinedProgram(use) =>
                /\ ~results[e].success
                /\ results[e].error = RuntimeError("Undefined variable 'undefinedVariable'")
                /\ io.outputBuffer[1] = "1\n"
                /\ ~has(envs, ProgramEnvironment(e), "undefinedVariable")

\* the routine of OuterAssignProgram has assigned to x: its scope binds y
\* alone and the x of the enclosing scope is 5
C27_Witness ==
    \E e \in Executions : \E i \in RoutineScopes(e) :
        /\ SourceOf(e) = OuterAssignProgram
        /\ DOMAIN envs[i].variables = {"y"}
        /\ DeclaredX(e).value = Num(5)

\* the error of a CLOSEFILE of h while no scope binds h to a handle: a
\* FileIOError, which is a RuntimeError
UnboundHandle ==
    Err("FileIOError", "Failed to close file: RuntimeError: Undefined file handle 'h'")

\* C28: a CLOSEFILE of an identifier that is bound to no handle fails, be it
\* that no OPENFILE bound it or that a CLOSEFILE has released it, and after
\* OPENFILE h and CLOSEFILE h no scope binds h: CloseTwiceProgram runs its
\* first CLOSEFILE and its OUTPUT, has h unbound from then on, and fails at
\* its second CLOSEFILE
C28_ReleaseOfUnboundHandleFails ==
    \A e \in Executions :
        /\ Returned(e) /\ SourceOf(e) = CloseUnopenedProgram =>
            /\ ~results[e].success
            /\ results[e].error = UnboundHandle
        /\ SourceOf(e) = CloseTwiceProgram /\ io.outputBuffer # <<>> =>
            /\ io.outputBuffer[1] = "1\n"
            /\ \A i \in EnvironmentsOf(e) : "h" \notin DOMAIN envs[i].fileHandles
        /\ Returned(e) /\ SourceOf(e) = CloseTwiceProgram =>
            /\ ~results[e].success
            /\ results[e].error = UnboundHandle
        /\ Returned(e) /\ SourceOf(e) = FileProgram =>
            /\ results[e].success
            /\ \A i \in EnvironmentsOf(e) : "h" \notin DOMAIN envs[i].fileHandles

\* CloseTwiceProgram has closed h once, gone on, and failed at its second
\* CLOSEFILE
C28_Witness ==
    \E e \in Executions :
        /\ Returned(e) /\ SourceOf(e) = CloseTwiceProgram
        /\ Len(io.outputBuffer) = 2
        /\ io.outputBuffer[1] = "1\n"
        /\ results[e].error = UnboundHandle

\* C29: the DECLARE of a variable of each primitive type and of an array,
\* written with the bounds 1:3 or in the form the parser has a rule for,
\* succeeds: the execution goes on to the statement after it and ends
\* successfully, the variable defined with a value that its type accepts
C29_DeclareGivesValidDefault ==
    \A e \in Executions :
        /\ \A type \in DOMAIN PrimitiveTypes :
            Returned(e) /\ SourceOf(e) = DeclareProgram(type) =>
                /\ results[e].success
                /\ io.outputBuffer = <<"1\n">>
                /\ "v" \in DOMAIN envs[ProgramEnvironment(e)].variables
                /\ validateValue(PrimitiveType(PrimitiveTypes[type]),
                                 envs[ProgramEnvironment(e)].variables["v"].value) = NoError
        /\ Returned(e) /\ SourceOf(e) \in {ArrayBoundsProgram, ArrayProgram} =>
                /\ results[e].success
                /\ "a" \in DOMAIN envs[ProgramEnvironment(e)].variables

\* the scope `id` and the scopes that enclose it
RECURSIVE ScopeChain(_)
ScopeChain(id) == IF id = 0 THEN {} ELSE {id} \cup ScopeChain(envs[id].parent)

\* the file-handle identifiers bound in the scope chain of the active
\* environment of e, each with the scope that binds it
BoundHandles(e) ==
    UNION {{<<i, name>> : name \in DOMAIN envs[i].fileHandles} :
                i \in ScopeChain(evaluators[e].environment)}

\* C30: in the scope chain of the active environment, two different
\* file-handle identifiers are never bound to the same number
C30_OpenHandlesAreDistinct ==
    \A e \in Executions : \A a, b \in BoundHandles(e) :
        a[2] # b[2] => envs[a[1]].fileHandles[a[2]] # envs[b[1]].fileHandles[b[2]]
====
